---------------------------- MODULE Spec2Model ----------------------------
(***************************************************************************)
(* A model of the document store of doc-meger-webapp                       *)
(* (src/src/app/stores/document-store.ts) and of the merge adapters it     *)
(* dispatches to (document-processors/index.ts, pdf-processor,             *)
(* excel-processor, word-processor, text-processor, error-handler).        *)
(*                                                                         *)
(* JavaScript runs every callback to completion: between two awaits no     *)
(* other handler runs.  The variable `active` holds the startProcessing    *)
(* invocation that is executing synchronously (0 when the event loop is    *)
(* idle); every zustand set() of such a block is a state of its own, and   *)
(* no other handler is enabled until the block reaches its next await.     *)
(***************************************************************************)
EXTENDS Integers, Sequences, FiniteSets, TLC

\* ------------------------------------------------------------------ bounds
MaxDocs == 2          \* documents the store holds in Spec
MaxStarts == 1        \* startProcessing invocations that create a job in Spec
MaxRuns == 2          \* startProcessing invocations that create a job in SpecJobs
MaxPages == 2         \* pages of a PDF input
MaxLen == 3           \* documents of a drawn list (SpecFormat, SpecOrder)
MaxJobDocs == 2       \* documents of a drawn list (SpecJobs)
MaxExcelFiles == 12   \* workbooks of a drawn list (SpecExcel)
MaxCsvFiles == 2      \* inputs of a CSV merge (SpecCsv)
MaxCsvLines == 3      \* lines of a CSV input (SpecCsv)
MaxFileSize == 7      \* bytes of a chunked file (SpecChunks)
MaxChunkSize == 3     \* bytes of a chunk (SpecChunks)
SizeMargin == 1       \* bytes around the size limit (SpecValidate)
MaxPhrases == 3       \* classifier phrases in a message (SpecClassify)
LimitMargin == 2      \* documents short of the limit at the start (SpecLimit)
MaxBatch == 2         \* files of an addDocuments batch (SpecLimit)
MaxAdded == 3         \* documents added in SpecLimit
MaxFraction == 2      \* a step reports the fractions k / MaxFraction (SpecPipeline)
MaxPipelines == 2     \* documents added in SpecPipeline
MaxWorkbooks == 2     \* buffers of a mergeExcelFiles call (SpecSheets)
MaxSheets == 2        \* sheets of an input workbook (SpecSheets)

\* --------------------------------------------------------------- constants
DocumentFormats == {"pdf", "docx", "xlsx", "pptx", "txt", "csv"}

NoJob == [id |-> 0]
NoCall == [op |-> "none"]
NoMessage == [text |-> "", phrases |-> {}]
NoResult == [success |-> FALSE, data |-> << >>, error |-> NoMessage, read |-> << >>]
BlankPage == <<0, 0>>

\* ----------------------------------------------------------------- helpers
RECURSIVE GCD(_, _)
GCD(a, b) == IF b = 0 THEN a ELSE GCD(b, a % b)

\* A progress value is a rational number n/d in lowest terms (the Excel
\* adapter reports i / totalFiles, which the store scales by 80).
Rat(n, d) == LET g == GCD(n, d) IN [n |-> n \div g, d |-> d \div g]
Whole(n) == [n |-> n, d |-> 1]
RatLeq(a, b) == a.n * b.d <= b.n * a.d

Range(s) == {s[i] : i \in 1..Len(s)}
Min(a, b) == IF a <= b THEN a ELSE b
Max(a, b) == IF a >= b THEN a ELSE b

RECURSIVE SeqSum(_)
SeqSum(s) == IF s = << >> THEN 0 ELSE Head(s) + SeqSum(Tail(s))

\* -------------------------------------------------------------- the inputs
\* A file is what the adapters can observe of it: its format, whether its
\* parser loads it (PDFDocument.load, mammoth, XLSX.read, text to PDF), and
\* how many units of content it holds (pages, sheets with a range, non-empty
\* text).
Files ==
    {[format |-> "pdf", units |-> u, ok |-> TRUE] : u \in 1..MaxPages}
    \cup {[format |-> "pdf", units |-> 0, ok |-> FALSE],
          [format |-> "docx", units |-> 1, ok |-> TRUE],
          [format |-> "docx", units |-> 0, ok |-> FALSE],
          [format |-> "xlsx", units |-> 1, ok |-> TRUE],
          [format |-> "xlsx", units |-> 0, ok |-> TRUE],
          [format |-> "xlsx", units |-> 0, ok |-> FALSE],
          [format |-> "txt", units |-> 1, ok |-> TRUE],
          [format |-> "txt", units |-> 0, ok |-> TRUE],
          [format |-> "csv", units |-> 1, ok |-> TRUE],
          [format |-> "pptx", units |-> 1, ok |-> TRUE]}


\* ---------------------------------------------------------- error handling
\* A raw error is what the classifier can observe of it: whether it already
\* is a DocumentError (and then its code) and which of the phrases the
\* classifier looks for occur in its lower-cased message.
RawError(phrases) == [isDocumentError |-> FALSE, code |-> "none", phrases |-> phrases]

\* A classifier that consults the context hint before the timeout rule.
identifyErrorCodeContextFirst(p, context) ==
    IF "exceeds" \in p /\ "limit" \in p THEN "FILE_TOO_LARGE"
    ELSE IF "file size" \in p /\ "too large" \in p THEN "FILE_TOO_LARGE"
    ELSE IF "unsupported" \in p /\ "format" \in p THEN "UNSUPPORTED_FORMAT"
    ELSE IF "invalid" \in p /\ "format" \in p THEN "UNSUPPORTED_FORMAT"
    ELSE IF "corrupt" \in p \/ "damaged" \in p THEN "FILE_CORRUPTED"
    ELSE IF "invalid" \in p /\ ("pdf" \in p \/ "document" \in p) THEN "FILE_CORRUPTED"
    ELSE IF "empty" \in p \/ "no content" \in p THEN "FILE_EMPTY"
    ELSE IF "memory" \in p \/ "heap" \in p THEN "INSUFFICIENT_MEMORY"
    ELSE IF "out of memory" \in p THEN "MEMORY_EXCEEDED"
    ELSE IF "password" \in p /\ "protect" \in p THEN "PDF_PASSWORD_PROTECTED"
    ELSE IF "pdf" \in p /\ "text extraction" \in p THEN "PDF_EXTRACTION_FAILED"
    ELSE IF "merge" \in p /\ "failed" \in p THEN "MERGE_FAILED"
    ELSE IF "conversion" \in p /\ "failed" \in p THEN "CONVERSION_FAILED"
    ELSE IF context = "pdf" /\ "failed" \in p THEN "PDF_EXTRACTION_FAILED"
    ELSE IF context = "merge" /\ "failed" \in p THEN "MERGE_FAILED"
    ELSE IF context = "processing" /\ "failed" \in p THEN "PROCESSING_FAILED"
    ELSE IF "timeout" \in p \/ "timed out" \in p THEN "TIMEOUT_ERROR"
    ELSE "UNKNOWN_ERROR"

\* ErrorHandler.identifyErrorCode: the first matching rule, top to bottom.
identifyErrorCode(p, context) ==
    IF "exceeds" \in p /\ "limit" \in p THEN "FILE_TOO_LARGE"
    ELSE IF "file size" \in p /\ "too large" \in p THEN "FILE_TOO_LARGE"
    ELSE IF "unsupported" \in p /\ "format" \in p THEN "UNSUPPORTED_FORMAT"
    ELSE IF "invalid" \in p /\ "format" \in p THEN "UNSUPPORTED_FORMAT"
    ELSE IF "corrupt" \in p \/ "damaged" \in p THEN "FILE_CORRUPTED"
    ELSE IF "invalid" \in p /\ ("pdf" \in p \/ "document" \in p) THEN "FILE_CORRUPTED"
    ELSE IF "empty" \in p \/ "no content" \in p THEN "FILE_EMPTY"
    ELSE IF "memory" \in p \/ "heap" \in p THEN "INSUFFICIENT_MEMORY"
    ELSE IF "out of memory" \in p THEN "MEMORY_EXCEEDED"
    ELSE IF "password" \in p /\ "protect" \in p THEN "PDF_PASSWORD_PROTECTED"
    ELSE IF "pdf" \in p /\ "text extraction" \in p THEN "PDF_EXTRACTION_FAILED"
    ELSE IF "merge" \in p /\ "failed" \in p THEN "MERGE_FAILED"
    ELSE IF "conversion" \in p /\ "failed" \in p THEN "CONVERSION_FAILED"
    ELSE IF "timeout" \in p \/ "timed out" \in p THEN "TIMEOUT_ERROR"
    ELSE IF context = "pdf" /\ "failed" \in p THEN "PDF_EXTRACTION_FAILED"
    ELSE IF context = "merge" /\ "failed" \in p THEN "MERGE_FAILED"
    ELSE IF context = "processing" /\ "failed" \in p THEN "PROCESSING_FAILED"
    ELSE "UNKNOWN_ERROR"

\* new DocumentError(code, ...): message, severity and userAction are looked
\* up from the code; technicalDetails is the original message.
DocumentError(code, technicalDetails) ==
    [isDocumentError |-> TRUE, code |-> code, phrases |-> technicalDetails]

\* ErrorHandler.createUserFriendlyError: a DocumentError is returned as it
\* is, any other error is classified by its message.
createUserFriendlyError(error, context) ==
    IF error.isDocumentError THEN error
    ELSE DocumentError(identifyErrorCode(error.phrases, context), error.phrases)

ClassifiedCodes ==
    {identifyErrorCode(p, "processing") :
        p \in SUBSET {"format", "conversion", "pdf", "merge", "document",
                      "no content", "failed", "corrupt", "invalid"}}

\* The messages the merge path raises, by the phrases they contain.
\* 'Format conversion to X not yet supported for this combination'
ConversionNotSupported == [text |-> "conversion not supported", phrases |-> {"format", "conversion"}]
\* 'Conversion from pptx to PDF not yet supported'
PptxToPdfNotSupported == [text |-> "pptx to pdf not supported", phrases |-> {"conversion", "pdf"}]
\* 'PowerPoint merging requires additional libraries. Please convert to PDF first.'
PowerPointMerging == [text |-> "powerpoint merging", phrases |-> {"pdf"}]
\* 'To preserve original formatting, please convert your DOCX files to PDF first ...'
PreserveFormattingUnsupported == [text |-> "preserve formatting", phrases |-> {"format", "pdf", "merge"}]
\* 'No content found in any document'
NoContentFound == [text |-> "no content found", phrases |-> {"no content", "document"}]
\* 'No text content found in any of the documents'
NoTextContentFound == [text |-> "no text content found", phrases |-> {"document"}]
\* the message of the UNKNOWN_ERROR DocumentError the Excel adapter builds from
\* 'No valid sheets found in any document'
ExcelFriendlyMessage == [text |-> "unexpected error", phrases |-> {}]
\* 'Processing failed', the store's fallback for a result without an error
ProcessingFailed == [text |-> "processing failed", phrases |-> {"failed"}]
\* what a parser or renderer of a library throws: its text is not the
\* repository's, so every phrase set below is possible
LibraryErrors ==
    {[text |-> "library error", phrases |-> p] : p \in {{}, {"failed"}, {"corrupt"}}}

\* ------------------------------------------------------------ the adapters
Fail(msg, read) == [success |-> FALSE, data |-> << >>, error |-> msg, read |-> read]
Ok(data, read) == [success |-> TRUE, data |-> data, error |-> NoMessage, read |-> read]

Ids(docs) == [i \in 1..Len(docs) |-> docs[i].id]

\* The pages (sheets, paragraphs) document d contributes: <<id, 1>> .. <<id, n>>.
Units(id, n) == [k \in 1..n |-> <<id, k>>]

\* PDFProcessor.mergePDFs over buffers [id, pages, loads]: a buffer that
\* fails to load is skipped, the others' pages are copied in input order.
RECURSIVE CopyPages(_)
CopyPages(buffers) ==
    IF buffers = << >> THEN << >>
    ELSE (IF Head(buffers).loads THEN Units(Head(buffers).id, Head(buffers).pages)
          ELSE << >>) \o CopyPages(Tail(buffers))

\* PDFDocument.save(): pdf-lib adds a default blank page to a document that
\* has no page (SaveOptions.addDefaultPage defaults to true).
Save(pages) == IF pages = << >> THEN <<BlankPage>> ELSE pages

mergePDFs(buffers, read) == Ok(Save(CopyPages(buffers)), read)

\* The buffer a document yields for the PDF merge: a PDF is passed as it is,
\* any other convertible format is rendered by convertTextToPDF, which makes
\* at least one page.
PdfBuffer(d) ==
    IF d.format = "pdf"
    THEN [id |-> d.id, pages |-> d.file.units, loads |-> d.file.ok]
    ELSE [id |-> d.id, pages |-> IF d.file.units = 0 THEN 1 ELSE d.file.units, loads |-> TRUE]

\* Does the Conversion Bridge throw at document d?  pptx always; docx, txt,
\* csv and xlsx when extraction or rendering throws.
ConversionThrows(d) ==
    \/ d.format = "pptx"
    \/ d.format \in {"docx", "txt", "csv", "xlsx"} /\ ~d.file.ok

\* DocumentProcessor.convertAndMergeToPDF: documents are read and converted
\* one by one in list order; the first that throws ends the run with a
\* failure result; otherwise the buffers are merged by mergePDFs.
\* `lib` is the message of a library failure.
RECURSIVE Convert(_, _, _, _)
Convert(docs, buffers, read, lib) ==
    IF docs = << >> THEN mergePDFs(buffers, read)
    ELSE LET d == Head(docs) IN
         IF d.format = "pptx" THEN Fail(PptxToPdfNotSupported, read)
         ELSE IF ConversionThrows(d) THEN Fail(lib, Append(read, d.id))
         ELSE Convert(Tail(docs), Append(buffers, PdfBuffer(d)), Append(read, d.id), lib)

convertAndMergeToPDF(docs, lib) == Convert(docs, << >>, << >>, lib)

\* ExcelProcessor.mergeExcelFiles: the sheets of every workbook in input
\* order; a workbook that fails to read becomes one error sheet <<id, 0>>.
RECURSIVE ExcelSheets(_)
ExcelSheets(docs) ==
    IF docs = << >> THEN << >>
    ELSE (IF Head(docs).file.ok THEN Units(Head(docs).id, Head(docs).file.units)
          ELSE <<<<Head(docs).id, 0>>>>) \o ExcelSheets(Tail(docs))

mergeExcelFiles(docs) ==
    IF ExcelSheets(docs) = << >> THEN Fail(ExcelFriendlyMessage, Ids(docs))
    ELSE Ok(ExcelSheets(docs), Ids(docs))

\* WordProcessor.mergeWordDocuments: refused when preserveFormatting is set,
\* before any buffer is parsed; otherwise every document's paragraphs in
\* input order, an error notice <<id, 0>> for a document that fails, and a
\* spacing paragraph <<id, -1>> after every parsed document but the last.
RECURSIVE WordParagraphs(_, _)
WordParagraphs(docs, n) ==
    IF docs = << >> THEN << >>
    ELSE LET d == Head(docs) IN
         (IF d.file.ok
          THEN Units(d.id, d.file.units) \o (IF Len(docs) > 1 THEN <<<<d.id, -1>>>> ELSE << >>)
          ELSE <<<<d.id, 0>>>>) \o WordParagraphs(Tail(docs), n)

\* A Word merge that does not look at preserveFormatting.
mergeWordDocumentsAnyOption(docs, options) ==
    IF WordParagraphs(docs, Len(docs)) = << >> THEN Fail(NoContentFound, Ids(docs))
    ELSE Ok(WordParagraphs(docs, Len(docs)), Ids(docs))

\* mergeWordDocuments: the test of options.preserveFormatting comes before
\* the loop over the buffers.
mergeWordDocuments(docs, options) ==
    IF options.preserveFormatting THEN Fail(PreserveFormattingUnsupported, Ids(docs))
    ELSE IF WordParagraphs(docs, Len(docs)) = << >> THEN Fail(NoContentFound, Ids(docs))
    ELSE Ok(WordParagraphs(docs, Len(docs)), Ids(docs))

\* TextProcessor.mergeTextFiles: the non-empty texts in input order.
RECURSIVE TextBodies(_)
TextBodies(docs) ==
    IF docs = << >> THEN << >>
    ELSE Units(Head(docs).id, Head(docs).file.units) \o TextBodies(Tail(docs))

mergeTextFiles(docs) ==
    IF TextBodies(docs) = << >> THEN Fail(NoTextContentFound, Ids(docs))
    ELSE Ok(TextBodies(docs), Ids(docs))

\* CSVProcessor.mergeCSVFiles: the rows of every input in input order; it
\* succeeds on any input.
mergeCSVFiles(docs) == Ok(TextBodies(docs), Ids(docs))

\* DocumentProcessor.mergeDocuments: the switch on the format.  Every case
\* but pptx first reads all the files (Promise.all of fileToBuffer / text).
mergeDocuments(docs, format, options) ==
    CASE format = "pdf" -> mergePDFs([i \in 1..Len(docs) |-> PdfBuffer(docs[i])], Ids(docs))
      [] format = "xlsx" -> mergeExcelFiles(docs)
      [] format = "docx" -> mergeWordDocuments(docs, options)
      [] format = "txt" -> mergeTextFiles(docs)
      [] format = "csv" -> mergeCSVFiles(docs)
      [] format = "pptx" -> Fail(PowerPointMerging, << >>)

\* ---------------------------------------------------- the format decision
\* [...new Set(documents.map(doc => doc.format))]: the distinct formats in
\* order of first occurrence.
RECURSIVE DistinctFormats(_, _)
DistinctFormats(docs, seen) ==
    IF docs = << >> THEN seen
    ELSE IF Head(docs).format \in Range(seen) THEN DistinctFormats(Tail(docs), seen)
    ELSE DistinctFormats(Tail(docs), Append(seen, Head(docs).format))

\* getOutputFormat without the rule for several Word documents.
getOutputFormatNoWordRule(docs) ==
    IF Len(docs) = 0 THEN "pdf"
    ELSE LET formats == DistinctFormats(docs, << >>) IN
         IF Len(formats) = 1 THEN formats[1] ELSE "pdf"

\* getOutputFormat of the store, as a function of its documents list.
getOutputFormat(docs) ==
    IF Len(docs) = 0 THEN "pdf"
    ELSE LET formats == DistinctFormats(docs, << >>) IN
         IF Len(formats) = 1
         THEN (IF formats[1] = "docx" /\ Len(docs) > 1 THEN "pdf" ELSE formats[1])
         ELSE "pdf"

\* Dispatch that sends only mixed lists to the Conversion Bridge.
DispatchMixedOnly(docs, outputFormat) ==
    LET inputFormats == DistinctFormats(docs, << >>) IN
    IF outputFormat = "pdf" /\ Len(inputFormats) > 1 THEN "bridge"
    ELSE IF Len(inputFormats) = 1 /\ inputFormats[1] = outputFormat THEN "native"
    ELSE "unsupported"

\* The branch startProcessing takes (document-store.ts 345-361).
Dispatch(docs, outputFormat) ==
    LET inputFormats == DistinctFormats(docs, << >>) IN
    IF outputFormat = "pdf"
       /\ (Len(inputFormats) > 1
           \/ (Len(inputFormats) = 1 /\ inputFormats[1] = "docx" /\ Len(docs) > 1))
    THEN "bridge"
    ELSE IF Len(inputFormats) = 1 /\ inputFormats[1] = outputFormat THEN "native"
    ELSE "unsupported"


\* ------------------------------------------------------------------- state
VARIABLES
    documents,      \* the store's documents list: records [id, file, format, status,
                    \* progress, metadata, preview, error]
    pipeline,       \* per added document id, the step its analysis pipeline awaits
                    \* and the last fraction that step reported
    mergeOptions,   \* the store's mergeOptions (the field the adapters branch on)
    currentJob,     \* NoJob (null) or the ProcessingJob
    isProcessing,
    urlsToCleanup,  \* the store's set of object URLs
    revoked,        \* object URLs passed to URL.revokeObjectURL
    runs,           \* the startProcessing invocations that have not returned yet
    nextDocId,      \* generateDocumentId for documents
    nextJobId,      \* generateDocumentId for jobs; a run is named by its job's id
    active,         \* the run executing synchronously, 0 when none is
    thrown,         \* the error of the last startProcessing call that rejected
    call            \* the library call in progress (CSV merge, chunk walk, file
                    \* validation, error classification), NoCall when none is

vars == <<documents, pipeline, mergeOptions, currentJob, isProcessing,
          urlsToCleanup, revoked, runs, nextDocId, nextJobId, active, thrown, call>>

MAX_FILES_BULK == 100

defaultMergeOptions == [preserveFormatting |-> TRUE]

\* The files Spec adds: a PDF, a Word document and a presentation.
StoreFiles == {f \in Files : f.format \in {"pdf", "docx", "pptx"} /\ f.ok /\ f.units = 1}

\* A DocumentFile: progress is << >> while undefined, metadata and preview
\* are present or not, error is the step whose failure wrote it and the code
\* its message was looked up from.
NoError == [step |-> "none", code |-> "none"]

Document(id, file, status) ==
    [id |-> id, file |-> file, format |-> file.format, status |-> status,
     progress |-> IF status = "processed" THEN <<Whole(1)>> ELSE << >>,
     metadata |-> status = "processed", preview |-> status = "processed",
     error |-> NoError]

Processed(files) == [i \in 1..Len(files) |-> Document(i, files[i], "processed")]

\* A pipeline at a step that has reported no progress yet.
Awaiting(step) == [step |-> step, reported |-> -1]

RunIds == DOMAIN runs

\* a function without the key k
Without(f, k) == [x \in DOMAIN f \ {k} |-> f[x]]

Idle == active = 0

InitStore ==
    /\ mergeOptions = defaultMergeOptions
    /\ currentJob = NoJob
    /\ isProcessing = FALSE
    /\ urlsToCleanup = {}
    /\ revoked = {}
    /\ runs = << >>
    /\ nextJobId = 1
    /\ active = 0
    /\ thrown = "none"
    /\ call = NoCall

Init ==
    /\ documents = << >>
    /\ pipeline = << >>
    /\ nextDocId = 1
    /\ InitStore

\* ------------------------------------------------------ document handling
\* A file validateFile rejects: getDocumentFormat finds no format for it.
UnsupportedFile == [format |-> "none", units |-> 0, ok |-> FALSE]

\* validateFiles(files).valid; the files of Files are within the size limit
\* and have a format.
RECURSIVE ValidFiles(_)
ValidFiles(files) ==
    IF files = << >> THEN << >>
    ELSE IF Head(files).format \in DocumentFormats
         THEN <<Head(files)>> \o ValidFiles(Tail(files))
         ELSE ValidFiles(Tail(files))

\* A limit test that looks at the list only, not at the batch.
ExceedsLimitBeforeAdding(existingDocs, valid) == Len(existingDocs) > MAX_FILES_BULK

\* existingDocs.length + valid.length > MAX_FILES_BULK
ExceedsLimit(existingDocs, valid) == Len(existingDocs) + Len(valid) > MAX_FILES_BULK

CannotAddMore == "cannot add more documents"

\* addDocuments(files) rejects: the batch does not fit.
addDocumentsThrows(files) ==
    /\ Idle
    /\ ExceedsLimit(documents, ValidFiles(files))
    /\ thrown' = CannotAddMore
    /\ UNCHANGED <<documents, pipeline, mergeOptions, currentJob, isProcessing,
                   urlsToCleanup, revoked, runs, nextDocId, nextJobId, active, call>>

\* addDocuments(files): the valid files are appended as pending documents
\* and the pipeline of each is started; the model names documents up to
\* maxId.
addDocuments(files, maxId) ==
    /\ Idle
    /\ nextDocId + Len(ValidFiles(files)) - 1 <= maxId
    /\ ~ExceedsLimit(documents, ValidFiles(files))
    /\ LET valid == ValidFiles(files)
           new == [i \in 1..Len(valid) |-> Document(nextDocId + i - 1, valid[i], "pending")] IN
       /\ documents' = documents \o new
       /\ pipeline' = [id \in DOMAIN pipeline \cup {new[i].id : i \in 1..Len(new)} |->
                          IF id \in DOMAIN pipeline THEN pipeline[id]
                          ELSE Awaiting("validating")]
       /\ nextDocId' = nextDocId + Len(valid)
    /\ UNCHANGED <<mergeOptions, currentJob, isProcessing, urlsToCleanup, revoked,
                   runs, nextJobId, active, thrown, call>>

\* {...doc, ...updates}
Updated(doc, updates) ==
    [k \in DOMAIN doc |-> IF k \in DOMAIN updates THEN updates[k] ELSE doc[k]]

\* A map that updates every document of the list.
MapEveryDocument(docs, id, updates) ==
    [i \in 1..Len(docs) |-> Updated(docs[i], updates)]

\* A map that updates the documents with another id.
MapOtherDocuments(docs, id, updates) ==
    [i \in 1..Len(docs) |-> IF docs[i].id # id THEN Updated(docs[i], updates) ELSE docs[i]]

\* set(state => documents.map(doc => doc.id === id ? {...doc, ...updates} : doc))
MapDocument(docs, id, updates) ==
    [i \in 1..Len(docs) |-> IF docs[i].id = id THEN Updated(docs[i], updates) ELSE docs[i]]

\* The pipeline of document id awaits the given step.
Awaits(id, step) == id \in DOMAIN pipeline /\ pipeline[id].step = step

\* A callback of the pipeline of document id runs: the document, if it is
\* still listed, is updated and the pipeline awaits to.
PipelineStep(id, to, updates) ==
    /\ Idle
    /\ pipeline' = [pipeline EXCEPT ![id] = to]
    /\ documents' = MapDocument(documents, id, updates)
    /\ UNCHANGED <<mergeOptions, currentJob, isProcessing, urlsToCleanup, revoked,
                   runs, nextDocId, nextJobId, active, thrown, call>>

\* progress * 0.2
ValidationShare(k) == Rat(2 * k, 10 * MaxFraction)

\* An analysis share that starts again from zero.
AnalysisShareFromZero(k) == Rat(4 * k, 10 * MaxFraction)

\* 0.2 + (progress * 0.4)
AnalysisShare(k) == Rat(2 * MaxFraction + 4 * k, 10 * MaxFraction)

\* The text of a failed step: the details of the classified error.
StepError(step, error, context) ==
    [step |-> step, code |-> createUserFriendlyError(error, context).code]

\* The errors a step of the pipeline fails with.
PipelineErrors == {RawError({}), RawError({"corrupt"})}

\* A step reports the fraction k / MaxFraction; a step reports fractions
\* of [0,1] in non-decreasing order, before it settles.
Reports(id, step, k) ==
    /\ Awaits(id, step)
    /\ k \in 0..MaxFraction
    /\ k >= pipeline[id].reported

\* validateDocument's onProgress
ValidationProgress(id, k) ==
    /\ Reports(id, "validating", k)
    /\ PipelineStep(id, [pipeline[id] EXCEPT !.reported = k],
                    [progress |-> <<ValidationShare(k)>>])

\* validateDocument resolved valid: analyzeDocument is started.
ValidationPassed(id) ==
    /\ Awaits(id, "validating")
    /\ PipelineStep(id, Awaiting("analyzing"), << >>)

\* validateDocument resolved invalid, or rejected.
ValidationFailed(id, error) ==
    /\ Awaits(id, "validating")
    /\ PipelineStep(id, Awaiting("done"),
                    [status |-> "error", error |-> StepError("validation", error, "validation")])

\* analyzeDocument's onProgress
AnalysisProgress(id, k) ==
    /\ Reports(id, "analyzing", k)
    /\ PipelineStep(id, [pipeline[id] EXCEPT !.reported = k],
                    [progress |-> <<AnalysisShare(k)>>])

\* analyzeDocument resolved: metadata is stored, generatePreview is started.
AnalysisDone(id) ==
    /\ Awaits(id, "analyzing")
    /\ PipelineStep(id, Awaiting("previewing"),
                    [metadata |-> TRUE, progress |-> <<Rat(6, 10)>>])

AnalysisFailed(id, error) ==
    /\ Awaits(id, "analyzing")
    /\ PipelineStep(id, Awaiting("done"),
                    [status |-> "error", error |-> StepError("analysis", error, "analysis")])

\* generatePreview resolved.
PreviewDone(id) ==
    /\ Awaits(id, "previewing")
    /\ PipelineStep(id, Awaiting("done"),
                    [preview |-> TRUE, status |-> "processed", progress |-> <<Whole(1)>>])

\* generatePreview rejected: the document is processed all the same.
PreviewFailed(id, error) ==
    /\ Awaits(id, "previewing")
    /\ PipelineStep(id, Awaiting("done"),
                    [status |-> "processed", progress |-> <<Whole(1)>>,
                     error |-> StepError("preview", error, "preview")])

\* documents.filter(doc => doc.id !== id)
SelectSeqNot(docs, id) == SelectSeq(docs, LAMBDA doc : doc.id # id)

\* removeDocument(id); a preview is text, never a blob URL.
removeDocument(id) ==
    /\ Idle
    /\ id \in Range(Ids(documents))
    /\ documents' = SelectSeqNot(documents, id)
    /\ UNCHANGED <<pipeline, mergeOptions, currentJob, isProcessing, urlsToCleanup,
                   revoked, runs, nextDocId, nextJobId, active, thrown, call>>

\* clearDocuments: every URL of the cleanup set is revoked.
clearDocuments ==
    /\ Idle
    /\ revoked' = revoked \cup urlsToCleanup
    /\ documents' = << >>
    /\ urlsToCleanup' = {}
    /\ UNCHANGED <<pipeline, mergeOptions, currentJob, isProcessing, runs, nextDocId,
                   nextJobId, active, thrown, call>>

\* The value of a destructured element that is not there; it stands in a
\* list where a document should.
Undefined ==
    [id |-> 0, file |-> UnsupportedFile, format |-> "undefined", status |-> "undefined",
     progress |-> << >>, metadata |-> FALSE, preview |-> FALSE, error |-> NoError]

\* The start index Array.prototype.splice works from (0-based): a negative
\* start counts from the end, a start past the end is the end.
SpliceStart(start, len) == IF start < 0 THEN Max(len + start, 0) ELSE Min(start, len)

\* Array.prototype.splice(at, 1): the list left, and the removed elements.
RemoveAt(s, at) ==
    LET a == SpliceStart(at, Len(s)) IN
    IF a < Len(s) THEN [i \in 1..(Len(s) - 1) |-> IF i <= a THEN s[i] ELSE s[i + 1]] ELSE s

Spliced(s, at) ==
    LET a == SpliceStart(at, Len(s)) IN IF a < Len(s) THEN <<s[a + 1]>> ELSE << >>

\* Array.prototype.splice(at, 0, x)
InsertAt(s, at, x) ==
    LET a == SpliceStart(at, Len(s)) IN
    [i \in 1..(Len(s) + 1) |-> IF i <= a THEN s[i] ELSE IF i = a + 1 THEN x ELSE s[i - 1]]

\* const [removed] = documents.splice(sourceIndex, 1);
\* documents.splice(destinationIndex, 0, removed)
Reordered(docs, sourceIndex, destinationIndex) ==
    LET removed == IF Spliced(docs, sourceIndex) = << >> THEN Undefined
                   ELSE Spliced(docs, sourceIndex)[1]
    IN InsertAt(RemoveAt(docs, sourceIndex), destinationIndex, removed)

reorderDocuments(sourceIndex, destinationIndex) ==
    /\ Idle
    /\ documents' = Reordered(documents, sourceIndex, destinationIndex)
    /\ UNCHANGED <<pipeline, mergeOptions, currentJob, isProcessing, urlsToCleanup,
                   revoked, runs, nextDocId, nextJobId, active, thrown, call>>

setMergeOptions(preserveFormatting) ==
    /\ Idle
    /\ mergeOptions.preserveFormatting # preserveFormatting
    /\ mergeOptions' = [mergeOptions EXCEPT !.preserveFormatting = preserveFormatting]
    /\ UNCHANGED <<documents, pipeline, currentJob, isProcessing, urlsToCleanup,
                   revoked, runs, nextDocId, nextJobId, active, thrown, call>>


\* -------------------------------------------------------------- processing
\* A filter that lets pending documents pass.
UnprocessedErrorsOnly(docs) == {i \in 1..Len(docs) : docs[i].status = "error"}

\* A filter that lets documents in error pass.
UnprocessedPendingOnly(docs) ==
    {i \in 1..Len(docs) : docs[i].status \notin {"processed", "error"}}

\* documents.filter(doc => doc.status !== 'processed')
Unprocessed(docs) == {i \in 1..Len(docs) : docs[i].status # "processed"}

\* The error startProcessing throws before it creates a job, "none" if none.
StartError(docs) ==
    IF Len(docs) = 0 THEN "No documents to process"
    ELSE IF Unprocessed(docs) # {} THEN "documents are still being analyzed"
    ELSE "none"

NewJob(id, docs, options) ==
    [id |-> id, documents |-> Ids(docs), options |-> options, status |-> "queued",
     progress |-> Whole(0), resultUrl |-> 0, error |-> "none", outputFormat |-> "none"]

\* set(state => ({currentJob: state.currentJob ? {...state.currentJob, ...} : null}))
updateProgress(job, progress) ==
    IF job = NoJob THEN NoJob ELSE [job EXCEPT !.progress = progress]

SetJobStatus(job, status) ==
    IF job = NoJob THEN NoJob ELSE [job EXCEPT !.status = status]

Completed(job, resultUrl, outputFormat) ==
    IF job = NoJob THEN NoJob
    ELSE [job EXCEPT !.status = "completed", !.progress = Whole(100),
                     !.resultUrl = resultUrl, !.outputFormat = outputFormat]

Failed(job, error) ==
    IF job = NoJob THEN NoJob ELSE [job EXCEPT !.status = "failed", !.error = error]

\* progressCallback: 10 + progress * 80, for progress = n / d
Scaled(n, d) == Rat(10 * d + 80 * n, d)

\* startProcessing rejects before it creates a job.
startProcessingThrows ==
    /\ Idle
    /\ StartError(documents) # "none"
    /\ thrown' = StartError(documents)
    /\ thrown' # thrown
    /\ UNCHANGED <<documents, pipeline, mergeOptions, currentJob, isProcessing,
                   urlsToCleanup, revoked, runs, nextDocId, nextJobId, active, call>>

\* startProcessing up to set({currentJob: job, isProcessing: true}); the
\* model creates at most maxJobs jobs.
startProcessing(maxJobs) ==
    /\ Idle
    /\ nextJobId <= maxJobs
    /\ StartError(documents) = "none"
    /\ currentJob' = NewJob(nextJobId, documents, mergeOptions)
    /\ isProcessing' = TRUE
    /\ runs' = [r \in RunIds \cup {nextJobId} |->
                  IF r \in RunIds THEN runs[r]
                  ELSE [pc |-> "created", documents |-> documents, options |-> mergeOptions,
                        outputFormat |-> getOutputFormat(documents), branch |-> "none",
                        i |-> 0, result |-> NoResult]]
    /\ active' = nextJobId
    /\ nextJobId' = nextJobId + 1
    /\ UNCHANGED <<documents, pipeline, mergeOptions, urlsToCleanup, revoked,
                   nextDocId, thrown, call>>

\* Run r is executing synchronously at pc.
At(r, pc) == active = r /\ r \in RunIds /\ runs[r].pc = pc

\* A synchronous step of run r that only changes the job and the run.
JobStep(r, job, run, next) ==
    /\ currentJob' = job
    /\ runs' = [runs EXCEPT ![r] = run]
    /\ active' = next
    /\ UNCHANGED <<documents, pipeline, mergeOptions, isProcessing, urlsToCleanup,
                   revoked, nextDocId, nextJobId, thrown, call>>

\* set(state => ({currentJob: {...state.currentJob, status: 'processing'}}))
SetProcessing(r) ==
    /\ At(r, "created")
    /\ JobStep(r, SetJobStatus(currentJob, "processing"),
               [runs[r] EXCEPT !.pc = "processing"], r)

\* updateProgress(5)
InitialProgress(r) ==
    /\ At(r, "processing")
    /\ JobStep(r, updateProgress(currentJob, Whole(5)),
               [runs[r] EXCEPT !.pc = "dispatch"], r)

\* The if / else if / else of lines 345-361: an adapter is called and
\* awaited, or the 'not yet supported' error is thrown into the catch.
DispatchRun(r) ==
    /\ At(r, "dispatch")
    /\ LET branch == Dispatch(runs[r].documents, runs[r].outputFormat) IN
       JobStep(r, currentJob,
               IF branch = "unsupported"
               THEN [runs[r] EXCEPT !.pc = "failing", !.branch = branch,
                                    !.result = Fail(ConversionNotSupported, << >>)]
               ELSE [runs[r] EXCEPT !.pc = "awaiting", !.branch = branch],
               IF branch = "unsupported" THEN r ELSE 0)

IsExcelRun(r) ==
    runs[r].branch = "native" /\ runs[r].outputFormat = "xlsx"

\* The adapter's result, for every adapter but Excel (which reports progress).
AdapterResult(run, lib) ==
    IF run.branch = "bridge" THEN convertAndMergeToPDF(run.documents, lib)
    ELSE mergeDocuments(run.documents, run.outputFormat, run.options)

\* The awaited adapter settles; it touches no state of the store.
AdapterReturns(r) ==
    /\ Idle
    /\ r \in RunIds
    /\ runs[r].pc = "awaiting"
    /\ ~IsExcelRun(r)
    /\ \E lib \in LibraryErrors :
          /\ runs' = [runs EXCEPT ![r].pc = "returned", ![r].result = AdapterResult(runs[r], lib)]
          /\ (lib.phrases # {} => runs'[r].result.error = lib)
    /\ UNCHANGED <<documents, pipeline, mergeOptions, currentJob, isProcessing,
                   urlsToCleanup, revoked, nextDocId, nextJobId, active, thrown, call>>

\* mergeExcelFiles starts its loop (it runs without an await to its return).
ExcelStart(r) ==
    /\ Idle
    /\ r \in RunIds
    /\ runs[r].pc = "awaiting"
    /\ IsExcelRun(r)
    /\ runs' = [runs EXCEPT ![r].pc = "excel", ![r].i = 0]
    /\ active' = r
    /\ UNCHANGED <<documents, pipeline, mergeOptions, currentJob, isProcessing,
                   urlsToCleanup, revoked, nextDocId, nextJobId, thrown, call>>

\* options.onProgress?.(i / totalFiles) at the head of the loop body
ExcelFile(r) ==
    /\ At(r, "excel")
    /\ runs[r].i < Len(runs[r].documents)
    /\ JobStep(r, updateProgress(currentJob, Scaled(runs[r].i, Len(runs[r].documents))),
               [runs[r] EXCEPT !.i = runs[r].i + 1], r)

\* after the loop: no sheet at all throws into the adapter's catch, which
\* returns a failure; otherwise options.onProgress?.(0.9)
ExcelLoopDone(r) ==
    /\ At(r, "excel")
    /\ runs[r].i = Len(runs[r].documents)
    /\ LET res == mergeExcelFiles(runs[r].documents) IN
       IF res.success
       THEN JobStep(r, updateProgress(currentJob, Scaled(9, 10)),
                    [runs[r] EXCEPT !.pc = "excelwrite", !.result = res], r)
       ELSE JobStep(r, currentJob,
                    [runs[r] EXCEPT !.pc = "returned", !.result = res], 0)

\* XLSX.write, then options.onProgress?.(1.0) and the return
ExcelWritten(r) ==
    /\ At(r, "excelwrite")
    /\ JobStep(r, updateProgress(currentJob, Scaled(1, 1)),
               [runs[r] EXCEPT !.pc = "returned"], 0)

\* The continuation of startProcessing after the await: the test of
\* result.success && result.data, whose else branch throws result.error or
\* 'Processing failed'.
Resume(r) ==
    /\ Idle
    /\ r \in RunIds
    /\ runs[r].pc = "returned"
    /\ runs' = [runs EXCEPT
                  ![r].pc = IF runs[r].result.success THEN "succeeded" ELSE "failing",
                  ![r].result = IF ~runs[r].result.success /\ runs[r].result.error = NoMessage
                                THEN [runs[r].result EXCEPT !.error = ProcessingFailed]
                                ELSE runs[r].result]
    /\ active' = r
    /\ UNCHANGED <<documents, pipeline, mergeOptions, currentJob, isProcessing,
                   urlsToCleanup, revoked, nextDocId, nextJobId, thrown, call>>

\* URL.createObjectURL(blob) and addUrlToCleanup(resultUrl); the URL of run r
\* is r.
AddUrl(r) ==
    /\ At(r, "succeeded")
    /\ urlsToCleanup' = urlsToCleanup \cup {r}
    /\ runs' = [runs EXCEPT ![r].pc = "progress95"]
    /\ UNCHANGED <<documents, pipeline, mergeOptions, currentJob, isProcessing,
                   revoked, nextDocId, nextJobId, active, thrown, call>>

\* updateProgress(95)
Progress95(r) ==
    /\ At(r, "progress95")
    /\ JobStep(r, updateProgress(currentJob, Whole(95)),
               [runs[r] EXCEPT !.pc = "completing"], r)

\* set(state => ({currentJob: {..., status: 'completed', progress: 100,
\* resultUrl, outputFormat}, isProcessing: false}))
Complete(r) ==
    /\ At(r, "completing")
    /\ currentJob' = Completed(currentJob, r, runs[r].outputFormat)
    /\ isProcessing' = FALSE
    /\ runs' = [runs EXCEPT ![r].pc = "progress100"]
    /\ UNCHANGED <<documents, pipeline, mergeOptions, urlsToCleanup, revoked,
                   nextDocId, nextJobId, active, thrown, call>>

\* updateProgress(100); startProcessing returns.
Progress100(r) ==
    /\ At(r, "progress100")
    /\ currentJob' = updateProgress(currentJob, Whole(100))
    /\ runs' = Without(runs, r)
    /\ active' = 0
    /\ UNCHANGED <<documents, pipeline, mergeOptions, isProcessing, urlsToCleanup,
                   revoked, nextDocId, nextJobId, thrown, call>>

\* The catch block: the error is classified and the job is set failed;
\* startProcessing returns.
Catch(r) ==
    /\ At(r, "failing")
    /\ currentJob' = Failed(currentJob,
                            createUserFriendlyError(RawError(runs[r].result.error.phrases),
                                                    "processing").code)
    /\ isProcessing' = FALSE
    /\ runs' = Without(runs, r)
    /\ active' = 0
    /\ UNCHANGED <<documents, pipeline, mergeOptions, urlsToCleanup, revoked,
                   nextDocId, nextJobId, thrown, call>>

\* cancelProcessing
cancelProcessing ==
    /\ Idle
    /\ currentJob # NoJob \/ isProcessing
    /\ IF currentJob # NoJob /\ currentJob.resultUrl # 0
       THEN /\ revoked' = revoked \cup {currentJob.resultUrl}
            /\ urlsToCleanup' = urlsToCleanup \ {currentJob.resultUrl}
       ELSE UNCHANGED <<revoked, urlsToCleanup>>
    /\ currentJob' = NoJob
    /\ isProcessing' = FALSE
    /\ UNCHANGED <<documents, pipeline, mergeOptions, runs, nextDocId, nextJobId,
                   active, thrown, call>>

\* ---------------------------------------------------------- specifications
\* The synchronous head of startProcessing after the job is created.
StartSteps(r) ==
    \/ SetProcessing(r)
    \/ InitialProgress(r)
    \/ DispatchRun(r)

ExcelSteps(r) ==
    \/ ExcelStart(r)
    \/ ExcelFile(r)
    \/ ExcelLoopDone(r)
    \/ ExcelWritten(r)

\* The continuation of startProcessing on a successful result.
SuccessSteps(r) ==
    \/ AddUrl(r)
    \/ Progress95(r)
    \/ Complete(r)
    \/ Progress100(r)

\* Spec: documents are added and analysed, removed, and merged.
Next ==
    \/ \E f \in StoreFiles : addDocuments(<<f>>, MaxDocs)
    \/ \E id \in 1..MaxDocs : ValidationPassed(id)
    \/ \E id \in 1..MaxDocs : ValidationFailed(id, RawError({}))
    \/ \E id \in 1..MaxDocs : AnalysisDone(id)
    \/ \E id \in 1..MaxDocs : AnalysisFailed(id, RawError({}))
    \/ \E id \in 1..MaxDocs : PreviewDone(id)
    \/ \E id \in 1..MaxDocs : PreviewFailed(id, RawError({}))
    \/ \E id \in 1..MaxDocs : removeDocument(id)
    \/ startProcessingThrows
    \/ startProcessing(MaxStarts)
    \/ \E r \in 1..MaxStarts : StartSteps(r)
    \/ \E r \in 1..MaxStarts : AdapterReturns(r)
    \/ \E r \in 1..MaxStarts : Resume(r)
    \/ \E r \in 1..MaxStarts : SuccessSteps(r)
    \/ \E r \in 1..MaxStarts : Catch(r)

Spec == Init /\ [][Next]_vars

\* The lists of at most n processed documents over a set of files, with
\* ids in list order.
RECURSIVE FileLists(_, _)
FileLists(files, n) ==
    IF n = 0 THEN {<< >>}
    ELSE LET shorter == FileLists(files, n - 1) IN
         shorter \cup {Append(l, f) : l \in {s \in shorter : Len(s) = n - 1}, f \in files}

InitProcessed(lists) ==
    /\ \E files \in lists :
          /\ documents = Processed(files)
          /\ pipeline = [id \in 1..Len(files) |-> Awaiting("done")]
          /\ nextDocId = Len(files) + 1
    /\ InitStore

\* SpecJobs: a processed list is merged repeatedly, jobs are cancelled and
\* the options changed, while earlier merges are still awaited.
JobFiles == {f \in Files : f.format \in {"pdf", "docx", "pptx"} /\ f.ok /\ f.units = 1}

InitJobs == InitProcessed(FileLists(JobFiles, MaxJobDocs) \ {<< >>})

NextJobs ==
    \/ \E b \in BOOLEAN : setMergeOptions(b)
    \/ startProcessing(MaxRuns)
    \/ cancelProcessing
    \/ \E r \in 1..MaxRuns : StartSteps(r)
    \/ \E r \in 1..MaxRuns : AdapterReturns(r)
    \/ \E r \in 1..MaxRuns : Resume(r)
    \/ \E r \in 1..MaxRuns : SuccessSteps(r)
    \/ \E r \in 1..MaxRuns : Catch(r)

SpecJobs == InitJobs /\ [][NextJobs]_vars

\* SpecRestart: merges started as the 'Start Merging' button starts them,
\* which is loading while isProcessing; a job is cancelled while its merge is
\* awaited and another is started.
NextRestart ==
    \/ ~isProcessing /\ startProcessing(MaxRuns)
    \/ cancelProcessing
    \/ \E r \in 1..MaxRuns : StartSteps(r)
    \/ \E r \in 1..MaxRuns : AdapterReturns(r)
    \/ \E r \in 1..MaxRuns : Resume(r)
    \/ \E r \in 1..MaxRuns : SuccessSteps(r)
    \/ \E r \in 1..MaxRuns : Catch(r)

SpecRestart == InitJobs /\ [][NextRestart]_vars

\* cleanupUrls: every URL of urlsToCleanup is revoked and the set emptied.
cleanupUrls ==
    /\ Idle
    /\ revoked' = revoked \cup urlsToCleanup
    /\ urlsToCleanup' = {}
    /\ UNCHANGED <<documents, pipeline, mergeOptions, currentJob, isProcessing, runs,
                   nextDocId, nextJobId, active, thrown, call>>

\* SpecCleanup: a processed list is merged; documents are removed, the list
\* is cleared, the URLs are cleaned up and the job is cancelled at any point
\* of the merge and after it.
NextCleanup ==
    \/ ~isProcessing /\ startProcessing(MaxRuns)
    \/ \E id \in 1..MaxJobDocs : removeDocument(id)
    \/ clearDocuments
    \/ cleanupUrls
    \/ cancelProcessing
    \/ \E r \in 1..MaxRuns : StartSteps(r)
    \/ \E r \in 1..MaxRuns : AdapterReturns(r)
    \/ \E r \in 1..MaxRuns : Resume(r)
    \/ \E r \in 1..MaxRuns : SuccessSteps(r)
    \/ \E r \in 1..MaxRuns : Catch(r)

SpecCleanup == InitJobs /\ [][NextCleanup]_vars

\* SpecFormat: one merge of every list of files, under either setting of
\* preserveFormatting.
InitFormat ==
    /\ \E files \in FileLists(Files, MaxLen) :
          /\ documents = Processed(files)
          /\ pipeline = [id \in 1..Len(files) |-> Awaiting("done")]
          /\ nextDocId = Len(files) + 1
    /\ mergeOptions \in {[preserveFormatting |-> b] : b \in BOOLEAN}
    /\ currentJob = NoJob
    /\ isProcessing = FALSE
    /\ urlsToCleanup = {}
    /\ revoked = {}
    /\ runs = << >>
    /\ nextJobId = 1
    /\ active = 0
    /\ thrown = "none"
    /\ call = NoCall

NextFormat ==
    \/ startProcessingThrows
    \/ startProcessing(1)
    \/ StartSteps(1)
    \/ AdapterReturns(1)
    \/ ExcelSteps(1)
    \/ Resume(1)
    \/ SuccessSteps(1)
    \/ Catch(1)

SpecFormat == InitFormat /\ [][NextFormat]_vars

\* SpecOrder: a list is rearranged by the user and then merged once.
OrderFiles ==
    {f \in Files : f.format = "pdf"}
    \cup {f \in Files : f.format \in {"docx", "xlsx", "txt"} /\ f.ok /\ f.units = 1}

InitOrder == InitProcessed(FileLists(OrderFiles, MaxLen) \ {<< >>})

NextOrder ==
    \/ \E s, d \in 0..(MaxLen - 1) :
          /\ currentJob = NoJob
          /\ s < Len(documents) /\ d < Len(documents) /\ s # d
          /\ reorderDocuments(s, d)
    \/ startProcessing(1)
    \/ StartSteps(1)
    \/ AdapterReturns(1)
    \/ ExcelSteps(1)
    \/ Resume(1)
    \/ SuccessSteps(1)
    \/ Catch(1)

SpecOrder == InitOrder /\ [][NextOrder]_vars

\* SpecExcel: one merge of n copies of a workbook.
ExcelFiles == {f \in Files : f.format = "xlsx"}

InitExcel ==
    /\ \E n \in 1..MaxExcelFiles, f \in ExcelFiles :
          /\ documents = Processed([i \in 1..n |-> f])
          /\ pipeline = [id \in 1..n |-> Awaiting("done")]
          /\ nextDocId = n + 1
    /\ InitStore

NextExcel ==
    \/ startProcessing(1)
    \/ StartSteps(1)
    \/ ExcelSteps(1)
    \/ Resume(1)
    \/ SuccessSteps(1)
    \/ Catch(1)

SpecExcel == InitExcel /\ [][NextExcel]_vars

\* ------------------------------------------------------------- CSV merging
\* Every definition below leaves the store as it is.
StoreUnchanged ==
    UNCHANGED <<documents, pipeline, mergeOptions, currentJob, isProcessing,
                urlsToCleanup, revoked, runs, nextDocId, nextJobId, active, thrown>>

InitIdleStore ==
    /\ documents = << >>
    /\ pipeline = << >>
    /\ nextDocId = 1
    /\ mergeOptions = defaultMergeOptions
    /\ currentJob = NoJob
    /\ isProcessing = FALSE
    /\ urlsToCleanup = {}
    /\ revoked = {}
    /\ runs = << >>
    /\ nextJobId = 1
    /\ active = 0
    /\ thrown = "none"

\* A CSV text is its lines after text.split('\n'): a line is a "row" when
\* line.trim() is not empty and "blank" otherwise.
CsvTexts == UNION {[1..n -> {"row", "blank"}] : n \in 0..MaxCsvLines}

\* CSVProcessor.parseCSV of input d: its non-blank lines in order, each
\* named <<d, line number>>.
parseCSV(d, text) ==
    LET lines == [k \in 1..Len(text) |-> [at |-> <<d, k>>, kind |-> text[k]]]
        rows == SelectSeq(lines, LAMBDA l : l.kind = "row")
    IN [k \in 1..Len(rows) |-> rows[k].at]

\* The data rows that keep the header of every input.
DataRowsKeepHeader(rows, includeHeaders, skipDuplicateHeaders, headerProcessed) == rows

\* dataRows of the loop body, computed after headerProcessed was updated.
DataRows(rows, includeHeaders, skipDuplicateHeaders, headerProcessed) ==
    IF includeHeaders /\ skipDuplicateHeaders /\ headerProcessed THEN Tail(rows) ELSE rows

\* One iteration of the loop of mergeCSVFiles over the next input.
MergeCsvFile ==
    /\ call.op = "mergeCSVFiles"
    /\ call.i < Len(call.documents)
    /\ LET d == call.i + 1
           rows == parseCSV(d, call.documents[d])
           pushHeader == call.includeHeaders /\ ~call.headerProcessed
           headerProcessed == call.headerProcessed \/ pushHeader
       IN call' = IF rows = << >>
                  THEN [call EXCEPT !.i = d]
                  ELSE [call EXCEPT
                          !.i = d,
                          !.headerProcessed = headerProcessed,
                          !.mergedRows =
                              call.mergedRows
                              \o (IF pushHeader THEN <<rows[1]>> ELSE << >>)
                              \o DataRows(rows, call.includeHeaders,
                                          call.skipDuplicateHeaders, headerProcessed)]
    /\ StoreUnchanged

\* mergeCSVFiles returns the merged rows.
MergeCsvReturn ==
    /\ call.op = "mergeCSVFiles"
    /\ call.i = Len(call.documents)
    /\ ~call.returned
    /\ call' = [call EXCEPT !.returned = TRUE]
    /\ StoreUnchanged

\* SpecCsv: one mergeCSVFiles call over every list of texts and options.
InitCsv ==
    /\ InitIdleStore
    /\ \E n \in 1..MaxCsvFiles :
          \E texts \in [1..n -> CsvTexts], includeHeaders, skipDuplicateHeaders \in BOOLEAN :
              call = [op |-> "mergeCSVFiles", documents |-> texts,
                      includeHeaders |-> includeHeaders,
                      skipDuplicateHeaders |-> skipDuplicateHeaders,
                      i |-> 0, headerProcessed |-> FALSE, mergedRows |-> << >>,
                      returned |-> FALSE]

NextCsv ==
    \/ MergeCsvFile
    \/ MergeCsvReturn

SpecCsv == InitCsv /\ [][NextCsv]_vars

\* -------------------------------------------------------- chunk processing
MAX_CONCURRENT == 3


\* Math.ceil(size / chunkSize) for integers size >= 0, chunkSize >= 1
Ceil(size, chunkSize) == (size + chunkSize - 1) \div chunkSize

\* A slice that runs over the end of the file.
SliceOverrun(j, size, chunkSize) ==
    [index |-> j, start |-> j * chunkSize,
     end |-> j * chunkSize + chunkSize,
     isFirstChunk |-> j = 0,
     isLastChunk |-> j = Ceil(size, chunkSize) - 1]

\* The slice chunk j covers: start = j * chunkSize, end = min(start + chunkSize, size).
Slice(j, size, chunkSize) ==
    [index |-> j, start |-> j * chunkSize,
     end |-> Min(j * chunkSize + chunkSize, size),
     isFirstChunk |-> j = 0,
     isLastChunk |-> j = Ceil(size, chunkSize) - 1]

\* A batch of one chunk more than maxConcurrentChunks.
BatchEndOneMore(i, maxConcurrentChunks, totalChunks) ==
    Min(i + maxConcurrentChunks + 1, totalChunks)

\* batchEnd = Math.min(i + maxConcurrentChunks, totalChunks)
BatchEnd(i, maxConcurrentChunks, totalChunks) ==
    Min(i + maxConcurrentChunks, totalChunks)

\* The chunk number in the error message, counted from 0.
ChunkNumberFromZero(i) == i

\* `File structure validation failed at chunk ${i + 1}`
ChunkNumber(i) == i + 1

ChunkOps == {"processFileInChunks", "streamFileBuffer", "validateFileStructure"}

Running(op) == call.op = op /\ call.result = "none"

\* processFileInChunks: the outer loop starts the batch i .. batchEnd - 1;
\* every chunk of it is sliced and its promise chain started before the
\* await of Promise.all.
StartBatch ==
    /\ Running("processFileInChunks")
    /\ ~call.failed
    /\ call.inflight = {}
    /\ call.i < call.totalChunks
    /\ LET batchEnd == BatchEnd(call.i, call.maxConcurrentChunks, call.totalChunks) IN
       call' = [call EXCEPT
                  !.inflight = call.i .. (batchEnd - 1),
                  !.visited = call.visited
                      \o [k \in 1..(batchEnd - call.i) |->
                             Slice(call.i + k - 1, call.size, call.chunkSize)],
                  !.batches = Append(call.batches, call.i .. (batchEnd - 1)),
                  !.i = call.i + call.maxConcurrentChunks]
    /\ StoreUnchanged

\* The processor of chunk j resolved: processedChunks++, onChunkProcessed.
ChunkProcessed(j) ==
    /\ call.op = "processFileInChunks"
    /\ j \in call.inflight
    /\ call' = [call EXCEPT
                  !.inflight = call.inflight \ {j},
                  !.completed = call.completed \cup {j},
                  !.processedChunks = call.processedChunks + 1,
                  !.reported = Append(call.reported,
                                      <<call.processedChunks + 1, call.totalChunks>>)]
    /\ StoreUnchanged

\* The read or the processor of chunk j rejected: Promise.all rejects.
ChunkRejected(j) ==
    /\ call.op = "processFileInChunks"
    /\ j \in call.inflight
    /\ call' = [call EXCEPT !.inflight = call.inflight \ {j}, !.failed = TRUE]
    /\ StoreUnchanged

\* processFileInChunks returns success after the last batch. After a
\* rejection the catch block builds its result from processedChunks, which
\* is declared with let inside the try block and is not in scope in the
\* catch: evaluating the object literal throws a ReferenceError and the
\* promise of processFileInChunks rejects (the other chunks of the batch
\* may still be in flight). The build ignores type errors, so this is the
\* code that runs.
ProcessReturns ==
    /\ Running("processFileInChunks")
    /\ \/ /\ call.failed
          /\ call' = [call EXCEPT !.result = "threw"]
       \/ /\ ~call.failed
          /\ call.inflight = {}
          /\ call.i >= call.totalChunks
          /\ call' = [call EXCEPT !.result = "success"]
    /\ StoreUnchanged

\* streamFileBuffer yields the next chunk.
StreamNext ==
    /\ Running("streamFileBuffer")
    /\ call.offset < call.size
    /\ LET end == Min(call.offset + call.chunkSize, call.size) IN
       call' = [call EXCEPT
                  !.visited = Append(call.visited,
                                     [index |-> Len(call.visited), start |-> call.offset,
                                      end |-> end,
                                      isFirstChunk |-> call.offset = 0,
                                      isLastChunk |-> end = call.size]),
                  !.offset = end]
    /\ StoreUnchanged

\* chunk.arrayBuffer() rejects: the generator throws.
StreamThrows ==
    /\ Running("streamFileBuffer")
    /\ call.offset < call.size
    /\ call' = [call EXCEPT !.result = "threw"]
    /\ StoreUnchanged

StreamDone ==
    /\ Running("streamFileBuffer")
    /\ call.offset >= call.size
    /\ call' = [call EXCEPT !.result = "done"]
    /\ StoreUnchanged

\* validateFileStructure: the validator is invoked on chunk i and accepts,
\* rejects or throws.
ValidateChunk(outcome) ==
    /\ Running("validateFileStructure")
    /\ call.i < call.totalChunks
    /\ call' = [call EXCEPT
                  !.visited = Append(call.visited, Slice(call.i, call.size, call.chunkSize)),
                  !.i = IF outcome = "accept" THEN call.i + 1 ELSE call.i,
                  !.result = CASE outcome = "accept" -> "none"
                               [] outcome = "reject" -> "invalid"
                               [] outcome = "throw" -> "invalid",
                  !.error = CASE outcome = "accept" -> 0
                              [] outcome = "reject" -> ChunkNumber(call.i)
                              [] outcome = "throw" -> -1,
                  !.outcomes = Append(call.outcomes, outcome)]
    /\ StoreUnchanged

\* chunk.arrayBuffer() rejects before the validator is invoked.
ValidateReadFails ==
    /\ Running("validateFileStructure")
    /\ call.i < call.totalChunks
    /\ call' = [call EXCEPT !.result = "invalid", !.error = -1]
    /\ StoreUnchanged

ValidateDone ==
    /\ Running("validateFileStructure")
    /\ call.i >= call.totalChunks
    /\ call' = [call EXCEPT !.result = "valid"]
    /\ StoreUnchanged

\* SpecChunks: one call of each chunk walk, for every size and chunk size.
InitChunks ==
    /\ InitIdleStore
    /\ \E op \in ChunkOps, size \in 0..MaxFileSize, chunkSize \in 1..MaxChunkSize :
          \E maxConcurrentChunks \in
                 IF op = "processFileInChunks" THEN 1..MAX_CONCURRENT ELSE {MAX_CONCURRENT} :
              call = [op |-> op, size |-> size, chunkSize |-> chunkSize,
                      maxConcurrentChunks |-> maxConcurrentChunks,
                      totalChunks |-> Ceil(size, chunkSize),
                      i |-> 0, offset |-> 0, visited |-> << >>, batches |-> << >>,
                      inflight |-> {}, completed |-> {}, processedChunks |-> 0,
                      reported |-> << >>, failed |-> FALSE, result |-> "none",
                      error |-> 0, outcomes |-> << >>]

NextChunks ==
    \/ StartBatch
    \/ \E j \in 0..MaxFileSize : ChunkProcessed(j)
    \/ \E j \in 0..MaxFileSize : ChunkRejected(j)
    \/ ProcessReturns
    \/ StreamNext
    \/ StreamThrows
    \/ StreamDone
    \/ \E outcome \in {"accept", "reject", "throw"} : ValidateChunk(outcome)
    \/ ValidateReadFails
    \/ ValidateDone

SpecChunks == InitChunks /\ [][NextChunks]_vars

\* ---------------------------------------------------------- file validation
MAX_FILE_SIZE == 50 * 1024 * 1024

SUPPORTED_FORMATS ==
    [pdf |-> {"application/pdf"},
     docx |-> {"application/vnd.openxmlformats-officedocument.wordprocessingml.document",
               "application/msword"},
     xlsx |-> {"application/vnd.openxmlformats-officedocument.spreadsheetml.sheet",
               "application/vnd.ms-excel"},
     pptx |-> {"application/vnd.openxmlformats-officedocument.presentationml.presentation",
               "application/vnd.ms-powerpoint"},
     txt |-> {"text/plain"},
     csv |-> {"text/csv", "application/csv"}]

\* The MIME types and extensions (file.name.split('.').pop()?.toLowerCase())
\* a file may carry: the known ones, an empty type, and unknown ones.
MimeTypes ==
    UNION {SUPPORTED_FORMATS[f] : f \in DocumentFormats} \cup {"", "application/zip"}

Extensions ==
    {"pdf", "docx", "doc", "xlsx", "xls", "pptx", "ppt", "txt", "csv", "zip", "undefined"}

\* The sizes around the limit, and the empty file.
FileSizes == {0} \cup {MAX_FILE_SIZE + d : d \in (0 - SizeMargin)..SizeMargin}

\* 'File size exceeds 50MB limit'
FileSizeExceeds == [text |-> "file size exceeds limit", phrases |-> {"file size", "exceeds", "limit"}]
\* 'Unsupported file format'
UnsupportedFileFormat == [text |-> "unsupported file format", phrases |-> {"unsupported", "format"}]

\* getDocumentFormat: the MIME table first, then the extension; "null" when
\* neither yields a format.
getDocumentFormat(file) ==
    IF \E f \in DocumentFormats : file.type \in SUPPORTED_FORMATS[f]
    THEN CHOOSE f \in DocumentFormats : file.type \in SUPPORTED_FORMATS[f]
    ELSE CASE file.extension = "pdf" -> "pdf"
           [] file.extension \in {"docx", "doc"} -> "docx"
           [] file.extension \in {"xlsx", "xls"} -> "xlsx"
           [] file.extension \in {"pptx", "ppt"} -> "pptx"
           [] file.extension = "txt" -> "txt"
           [] file.extension = "csv" -> "csv"
           [] OTHER -> "null"

\* validateFile that also rejects a file of exactly the limit.
validateFileAtLimit(file) ==
    IF file.size >= MAX_FILE_SIZE THEN [valid |-> FALSE, error |-> FileSizeExceeds]
    ELSE IF getDocumentFormat(file) = "null"
    THEN [valid |-> FALSE, error |-> UnsupportedFileFormat]
    ELSE [valid |-> TRUE, error |-> NoMessage]

validateFile(file) ==
    IF file.size > MAX_FILE_SIZE THEN [valid |-> FALSE, error |-> FileSizeExceeds]
    ELSE IF getDocumentFormat(file) = "null"
    THEN [valid |-> FALSE, error |-> UnsupportedFileFormat]
    ELSE [valid |-> TRUE, error |-> NoMessage]

\* validateFiles, for one file of the list: validateFile is called.
ValidateFileCall ==
    /\ call.op = "validateFiles"
    /\ call.pc = "start"
    /\ call' = [call EXCEPT !.pc = "validated", !.validation = validateFile(call.file)]
    /\ StoreUnchanged

\* valid.push(file)
PushValid ==
    /\ call.op = "validateFiles"
    /\ call.pc = "validated"
    /\ call.validation.valid
    /\ call' = [call EXCEPT !.pc = "done", !.valid = Append(call.valid, call.file)]
    /\ StoreUnchanged

\* invalid.push(file), with the error classified in context 'validation'
PushInvalid ==
    /\ call.op = "validateFiles"
    /\ call.pc = "validated"
    /\ ~call.validation.valid
    /\ call' = [call EXCEPT
                  !.pc = "done",
                  !.invalid = Append(call.invalid, call.file),
                  !.errors = Append(call.errors,
                                    createUserFriendlyError(
                                        RawError(call.validation.error.phrases),
                                        "validation").code)]
    /\ StoreUnchanged

\* SpecValidate: validateFiles over one file of every size, type and name.
InitValidate ==
    /\ InitIdleStore
    /\ \E size \in FileSizes, type \in MimeTypes, extension \in Extensions :
          call = [op |-> "validateFiles", pc |-> "start",
                  file |-> [size |-> size, type |-> type, extension |-> extension],
                  validation |-> [valid |-> FALSE, error |-> NoMessage],
                  valid |-> << >>, invalid |-> << >>, errors |-> << >>]

NextValidate ==
    \/ ValidateFileCall
    \/ PushValid
    \/ PushInvalid

SpecValidate == InitValidate /\ [][NextValidate]_vars

\* ------------------------------------------------------ error classification
\* The phrases identifyErrorCode looks for in the lower-cased message.
Phrases ==
    {"exceeds", "limit", "file size", "too large", "unsupported", "format", "invalid",
     "corrupt", "damaged", "pdf", "document", "empty", "no content", "memory", "heap",
     "out of memory", "password", "protect", "text extraction", "merge", "failed",
     "conversion", "timeout", "timed out"}

\* The phrases a message can contain: a message that includes 'out of
\* memory' includes 'memory'.
PhraseSets ==
    {p \in SUBSET Phrases :
        /\ Cardinality(p) <= MaxPhrases
        /\ "out of memory" \in p => "memory" \in p}

\* The context hints: the ones the classifier knows, one it does not, and
\* none.
Contexts == {"pdf", "merge", "processing", "validation", "undefined"}

ERROR_CODES ==
    {"FILE_TOO_LARGE", "UNSUPPORTED_FORMAT", "FILE_CORRUPTED", "FILE_EMPTY",
     "PROCESSING_FAILED", "MEMORY_EXCEEDED", "MERGE_FAILED", "CONVERSION_FAILED",
     "PDF_PASSWORD_PROTECTED", "PDF_EXTRACTION_FAILED", "DOCX_COMPLEX_FORMATTING",
     "XLSX_LARGE_SPREADSHEET", "PPTX_MEDIA_NOT_SUPPORTED", "BROWSER_NOT_SUPPORTED",
     "INSUFFICIENT_MEMORY", "UNKNOWN_ERROR", "TIMEOUT_ERROR"}

\* The errors handed to createUserFriendlyError: a raw error with any
\* message, or a DocumentError.
ThrownErrors ==
    {RawError(p) : p \in PhraseSets}
    \cup {DocumentError(code, p) : code \in {"FILE_EMPTY", "MERGE_FAILED"},
                                   p \in {{}, {"corrupt"}}}

\* createUserFriendlyError(error, context) is called and returns.
Classify ==
    /\ call.op = "createUserFriendlyError"
    /\ ~call.returned
    /\ call' = [call EXCEPT !.returned = TRUE,
                            !.result = createUserFriendlyError(call.error, call.context)]
    /\ StoreUnchanged

\* SpecClassify: one classification of every error under every context.
InitClassify ==
    /\ InitIdleStore
    /\ \E error \in ThrownErrors, context \in Contexts :
          call = [op |-> "createUserFriendlyError", error |-> error, context |-> context,
                  returned |-> FALSE, result |-> RawError({})]

NextClassify == Classify

SpecClassify == InitClassify /\ [][NextClassify]_vars

\* ------------------------------------------------------------ the file limit
\* The batches handed to addDocuments: PDFs and files without a format.
RECURSIVE Batches(_)
Batches(n) ==
    IF n = 0 THEN {<< >>}
    ELSE LET shorter == Batches(n - 1) IN
         shorter \cup {Append(b, f) : b \in {s \in shorter : Len(s) = n - 1},
                                     f \in {[format |-> "pdf", units |-> 1, ok |-> TRUE],
                                            UnsupportedFile}}

\* The documents removeDocument is called for: those at the end of the
\* initial list and the added ones.
LastDocuments == {id \in Range(Ids(documents)) : id >= MAX_FILES_BULK - LimitMargin}

\* SpecLimit: a list a few documents short of MAX_FILES_BULK; batches are
\* added, documents removed and the list cleared.
InitLimit ==
    InitProcessed({[i \in 1..n |-> [format |-> "pdf", units |-> 1, ok |-> TRUE]] :
                      n \in (MAX_FILES_BULK - LimitMargin)..MAX_FILES_BULK})

NextLimit ==
    \/ \E files \in Batches(MaxBatch) : addDocuments(files, MAX_FILES_BULK + MaxAdded)
    \/ \E files \in Batches(MaxBatch) : addDocumentsThrows(files)
    \/ \E id \in LastDocuments : removeDocument(id)
    \/ clearDocuments

SpecLimit == InitLimit /\ [][NextLimit]_vars

\* ------------------------------------------------- the document pipelines
\* SpecPipeline: batches of PDFs are added; their pipelines report
\* progress, settle and fail independently while documents are removed
\* and the list is cleared.
PipelineBatches ==
    {b \in Batches(MaxPipelines) : b # << >> /\ \A i \in 1..Len(b) : b[i] # UnsupportedFile}

NextPipeline ==
    \/ \E files \in PipelineBatches : addDocuments(files, MaxPipelines)
    \/ \E id \in 1..MaxPipelines, k \in 0..MaxFraction : ValidationProgress(id, k)
    \/ \E id \in 1..MaxPipelines : ValidationPassed(id)
    \/ \E id \in 1..MaxPipelines, error \in PipelineErrors : ValidationFailed(id, error)
    \/ \E id \in 1..MaxPipelines, k \in 0..MaxFraction : AnalysisProgress(id, k)
    \/ \E id \in 1..MaxPipelines : AnalysisDone(id)
    \/ \E id \in 1..MaxPipelines, error \in PipelineErrors : AnalysisFailed(id, error)
    \/ \E id \in 1..MaxPipelines : PreviewDone(id)
    \/ \E id \in 1..MaxPipelines, error \in PipelineErrors : PreviewFailed(id, error)
    \/ \E id \in 1..MaxPipelines : removeDocument(id)
    \/ clearDocuments

SpecPipeline == Init /\ [][NextPipeline]_vars

\* ------------------------------------------------------ workbook sheet names
\* A string is the sequence of its characters.
SHEET_NAME_LIMIT == 31

RECURSIVE Digits(_)
Digits(n) ==
    IF n < 10 THEN <<<<"0", "1", "2", "3", "4", "5", "6", "7", "8", "9">>[n + 1]>>
    ELSE Digits(n \div 10) \o Digits(n % 10)

\* String.prototype.substring(0, end)
Substring(str, end) == SubSeq(str, 1, Min(IF end < 0 THEN 0 ELSE end, Len(str)))

\* `File${i + 1}_${sheetName}`
FilePrefixed(i, sheetName) == <<"F", "i", "l", "e">> \o Digits(i + 1) \o <<"_">> \o sheetName

\* `Sheet${sheetCounter}`
Sequential(sheetCounter) == <<"S", "h", "e", "e", "t">> \o Digits(sheetCounter)

\* `File${i + 1}_Error`
ErrorSheetName(i) == FilePrefixed(i, <<"E", "r", "r", "o", "r">>)

\* The switch on options.sheetNaming.
NewSheetName(sheetNaming, i, sheetIndex, sheetName, sheetCounter) ==
    CASE sheetNaming = "sequential" -> Sequential(sheetCounter)
      [] sheetNaming = "original" -> FilePrefixed(i, sheetName)
      [] OTHER -> IF i = 0 /\ sheetIndex = 0 THEN sheetName ELSE FilePrefixed(i, sheetName)

\* `_${nameCounter}`
Suffix(nameCounter) == <<"_">> \o Digits(nameCounter)

\* The while loop that searches a name the workbook does not have yet; the
\* result is the name and the counter the loop ended with.
RECURSIVE FinalName(_, _, _, _)
FinalName(newSheetName, SheetNames, nameCounter, finalName) ==
    IF finalName \in Range(SheetNames)
    THEN FinalName(newSheetName, SheetNames, nameCounter + 1,
                   Substring(newSheetName, SHEET_NAME_LIMIT - Len(Suffix(nameCounter)))
                       \o Suffix(nameCounter))
    ELSE [name |-> finalName, nameCounter |-> nameCounter]

\* The sheet names of the input workbooks: a short one, one that reads like
\* an error sheet's, and two of full length that differ in the last
\* character.
InputSheetNames ==
    {<<"D", "a", "t", "a">>,
     ErrorSheetName(1),
     [k \in 1..SHEET_NAME_LIMIT |-> IF k = SHEET_NAME_LIMIT THEN "a" ELSE "x"],
     [k \in 1..SHEET_NAME_LIMIT |-> IF k = SHEET_NAME_LIMIT THEN "b" ELSE "x"]}

\* A sheet of an input workbook: its name and whether it has a '!ref'.
InputSheets ==
    {[name |-> n, ref |-> TRUE] : n \in InputSheetNames}
    \cup {[name |-> <<"D", "a", "t", "a">>, ref |-> FALSE]}

RECURSIVE SheetLists(_)
SheetLists(n) ==
    IF n = 0 THEN {<< >>}
    ELSE LET shorter == SheetLists(n - 1) IN
         shorter \cup {l \in {Append(x, sh) : x \in {y \in shorter : Len(y) = n - 1},
                                               sh \in InputSheets} :
                          \A k \in 1..(n - 1) : l[k].name # l[n].name}

\* An input buffer: XLSX.read throws for it, or it reads as a workbook
\* whose sheet names are distinct.
Workbooks ==
    {[readable |-> FALSE, sheets |-> << >>]}
    \cup {[readable |-> TRUE, sheets |-> l] : l \in SheetLists(MaxSheets) \ {<< >>}}

RECURSIVE WorkbookLists(_)
WorkbookLists(n) ==
    IF n = 0 THEN {<< >>}
    ELSE LET shorter == WorkbookLists(n - 1) IN
         shorter \cup {Append(l, w) : l \in {x \in shorter : Len(x) = n - 1}, w \in Workbooks}

\* The call is at the sheet with 0-based index call.sheetIndex of the
\* readable workbook i.
AtSheet ==
    /\ call.op = "mergeExcelFiles"
    /\ call.i < Len(call.documents)
    /\ call.documents[call.i + 1].readable
    /\ call.sheetIndex < Len(call.documents[call.i + 1].sheets)

\* The forEach callback returns for a sheet without a range.
SkipEmptySheet ==
    /\ AtSheet
    /\ ~call.documents[call.i + 1].sheets[call.sheetIndex + 1].ref
    /\ call' = [call EXCEPT !.sheetIndex = @ + 1]
    /\ StoreUnchanged

\* The forEach callback names a sheet and pushes it.
AddSheet ==
    /\ AtSheet
    /\ call.documents[call.i + 1].sheets[call.sheetIndex + 1].ref
    /\ LET sheetName == call.documents[call.i + 1].sheets[call.sheetIndex + 1].name
           newSheetName == NewSheetName(call.sheetNaming, call.i, call.sheetIndex, sheetName,
                                        call.sheetCounter)
           found == FinalName(newSheetName, call.SheetNames, 1,
                              Substring(newSheetName, SHEET_NAME_LIMIT))
       IN call' = [call EXCEPT !.SheetNames = Append(@, found.name),
                               !.sheetCounter = IF call.sheetNaming = "original" THEN @ ELSE @ + 1,
                               !.nameCounter = found.nameCounter,
                               !.sheetIndex = @ + 1]
    /\ StoreUnchanged

\* The sheets of workbook i are done: the loop goes to the next buffer.
NextWorkbook ==
    /\ call.op = "mergeExcelFiles"
    /\ call.i < Len(call.documents)
    /\ call.documents[call.i + 1].readable
    /\ call.sheetIndex = Len(call.documents[call.i + 1].sheets)
    /\ call' = [call EXCEPT !.i = @ + 1, !.sheetIndex = 0]
    /\ StoreUnchanged

\* XLSX.read throws: the inner catch pushes the error sheet.
AddErrorSheet ==
    /\ call.op = "mergeExcelFiles"
    /\ call.i < Len(call.documents)
    /\ ~call.documents[call.i + 1].readable
    /\ call' = [call EXCEPT !.SheetNames = Append(@, ErrorSheetName(call.i)),
                            !.i = @ + 1, !.sheetIndex = 0]
    /\ StoreUnchanged

\* After the loop: no sheet at all throws, otherwise the workbook is handed
\* to XLSX.write.
WriteWorkbook ==
    /\ call.op = "mergeExcelFiles"
    /\ call.i = Len(call.documents)
    /\ call.result = "none"
    /\ call' = [call EXCEPT !.result = IF call.SheetNames = << >> THEN "thrown" ELSE "written"]
    /\ StoreUnchanged

\* SpecSheets: one mergeExcelFiles call over every list of workbooks and
\* every sheetNaming option.
InitSheets ==
    /\ InitIdleStore
    /\ \E documents_ \in WorkbookLists(MaxWorkbooks) \ {<< >>},
          sheetNaming \in {"original", "sequential", "custom", "undefined"} :
          call = [op |-> "mergeExcelFiles", documents |-> documents_,
                  sheetNaming |-> sheetNaming, i |-> 0, sheetIndex |-> 0,
                  sheetCounter |-> 1, nameCounter |-> 1, SheetNames |-> << >>,
                  result |-> "none"]

NextSheets ==
    \/ SkipEmptySheet
    \/ AddSheet
    \/ NextWorkbook
    \/ AddErrorSheet
    \/ WriteWorkbook

SpecSheets == InitSheets /\ [][NextSheets]_vars

\* ------------------------------------------------------ the ordering modal
\* documents.findIndex(d => d.id === id), 0-based, -1 when there is none
FindIndex(docs, id) ==
    IF \E k \in 1..Len(docs) : docs[k].id = id
    THEN (CHOOSE k \in 1..Len(docs) :
              docs[k].id = id /\ \A m \in 1..(k - 1) : docs[m].id # id) - 1
    ELSE 0 - 1

\* [list[a], list[b]] = [list[b], list[a]], 0-based
Swapped(list, a, b) ==
    [k \in 1..Len(list) |-> IF k = a + 1 THEN list[b + 1]
                             ELSE IF k = b + 1 THEN list[a + 1] ELSE list[k]]

\* The modal is open on the arrangement tempDocuments.
ModalOpen == call.op = "orderModal"

\* The modal opens: the useEffect copies the store's list.
OpenOrderModal ==
    /\ Idle
    /\ ~ModalOpen
    /\ documents # << >>
    /\ Undefined \notin Range(documents)
    /\ call' = [op |-> "orderModal", tempDocuments |-> documents]
    /\ StoreUnchanged

handleMoveUp(index) ==
    /\ ModalOpen
    /\ index \in 0..(Len(call.tempDocuments) - 1)
    /\ index > 0
    /\ call' = [call EXCEPT !.tempDocuments = Swapped(@, index - 1, index)]
    /\ StoreUnchanged

handleMoveDown(index) ==
    /\ ModalOpen
    /\ index \in 0..(Len(call.tempDocuments) - 1)
    /\ index < Len(call.tempDocuments) - 1
    /\ call' = [call EXCEPT !.tempDocuments = Swapped(@, index, index + 1)]
    /\ StoreUnchanged

\* A row is dragged onto another row.
handleDrop(draggedIndex, dropIndex) ==
    /\ ModalOpen
    /\ draggedIndex \in 0..(Len(call.tempDocuments) - 1)
    /\ dropIndex \in 0..(Len(call.tempDocuments) - 1)
    /\ draggedIndex # dropIndex
    /\ call' = [call EXCEPT !.tempDocuments =
                    InsertAt(RemoveAt(@, draggedIndex), dropIndex, @[draggedIndex + 1])]
    /\ StoreUnchanged

\* tempDocuments.forEach((doc, newIndex) => ...): oldIndex is looked up in
\* the list the component rendered with, reorderDocuments works on the
\* store's list of the moment.
RECURSIVE ApplyOrder(_, _, _, _)
ApplyOrder(store, rendered, tempDocuments, newIndex) ==
    IF newIndex = Len(tempDocuments) THEN store
    ELSE LET oldIndex == FindIndex(rendered, tempDocuments[newIndex + 1].id) IN
         ApplyOrder(IF oldIndex # newIndex THEN Reordered(store, oldIndex, newIndex) ELSE store,
                    rendered, tempDocuments, newIndex + 1)

\* 'Confirm Order': the arrangement is applied to the store and the modal
\* closes.
handleConfirm ==
    /\ Idle
    /\ ModalOpen
    /\ documents' = ApplyOrder(documents, documents, call.tempDocuments, 0)
    /\ call' = [op |-> "orderConfirmed", tempDocuments |-> call.tempDocuments]
    /\ UNCHANGED <<pipeline, mergeOptions, currentJob, isProcessing, urlsToCleanup,
                   revoked, runs, nextDocId, nextJobId, active, thrown>>

\* The modal is closed without confirming.
CloseOrderModal ==
    /\ ModalOpen
    /\ call' = NoCall
    /\ StoreUnchanged

\* SpecReorder: a processed list is reordered by index, and arranged in
\* the modal and confirmed.
InitReorder ==
    InitProcessed(FileLists({[format |-> "pdf", units |-> 1, ok |-> TRUE]}, MaxLen) \ {<< >>})

NextReorder ==
    \/ \E s, d \in (0 - 1)..(MaxLen + 1) :
          /\ ~ModalOpen
          /\ Len(documents) <= MaxLen
          /\ reorderDocuments(s, d)
    \/ OpenOrderModal
    \/ \E index \in 0..(MaxLen - 1) : handleMoveUp(index)
    \/ \E index \in 0..(MaxLen - 1) : handleMoveDown(index)
    \/ \E a, b \in 0..(MaxLen - 1) : handleDrop(a, b)
    \/ handleConfirm
    \/ CloseOrderModal

SpecReorder == InitReorder /\ [][NextReorder]_vars

\* ------------------------------------------------------------------ claims
FormatsOf(docs) == {docs[i].format : i \in 1..Len(docs)}

\* The decision table of the specification, over the set of formats and the
\* number of documents.
Decision(formats, count) ==
    IF count = 0 THEN "pdf"
    ELSE IF Cardinality(formats) >= 2 THEN "pdf"
    ELSE IF formats = {"docx"} /\ count >= 2 THEN "pdf"
    ELSE CHOOSE f \in formats : TRUE

\* C1: getOutputFormat depends only on the formats present and the number of
\* documents: empty -> pdf; one format that is not docx -> that format; docx
\* alone -> docx; two or more docx -> pdf; two or more formats -> pdf.  The
\* decision of the store's list, and the one every run took at its start,
\* is the table's.
C1_OutputFormatDecision ==
    /\ getOutputFormat(documents) = Decision(FormatsOf(documents), Len(documents))
    /\ \A r \in RunIds :
          runs[r].outputFormat = Decision(FormatsOf(runs[r].documents), Len(runs[r].documents))

C1_Witness ==
    /\ Len(documents) >= 2
    /\ FormatsOf(documents) = {"docx"}
    /\ currentJob # NoJob
    /\ currentJob.status = "completed"
    /\ currentJob.outputFormat = "pdf"

Terminal == {"processed", "error"}

JobCreated == currentJob' # NoJob /\ currentJob'.id # currentJob.id

\* C5: a step creates a job only from a state in which every document has
\* status processed or error (and it then sets isProcessing), and in every
\* state with a document that is still pending startProcessing throws.
C5_JobOnlyOnceAnalysed ==
    [][/\ (\E i \in 1..Len(documents) : documents[i].status \notin Terminal)
            => StartError(documents) # "none"
       /\ JobCreated =>
            /\ \A i \in 1..Len(documents) : documents[i].status \in Terminal
            /\ isProcessing'
            /\ currentJob'.status = "queued"]_vars

C5_Witness ==
    /\ thrown = "documents are still being analyzed"
    /\ currentJob # NoJob
    /\ Len(documents) = MaxDocs

\* The branch the specification prescribes, over the set of formats.
ExpectedBranch(docs, outputFormat) ==
    IF outputFormat = "pdf"
       /\ (Cardinality(FormatsOf(docs)) >= 2 \/ (FormatsOf(docs) = {"docx"} /\ Len(docs) >= 2))
    THEN "bridge"
    ELSE IF FormatsOf(docs) = {outputFormat} THEN "native"
    ELSE "unsupported"

Dispatched(r) == runs[r].branch # "none"

\* C9: once a run has dispatched, it took the Conversion Bridge exactly when
\* the output is pdf and the list is mixed or holds two or more Word
\* documents only, the native merge exactly when the single input format is
\* the output format, and otherwise it raised 'conversion not supported'
\* with no document read.
C9_Dispatch ==
    \A r \in RunIds :
        Dispatched(r) =>
            /\ runs[r].branch = ExpectedBranch(runs[r].documents, runs[r].outputFormat)
            /\ runs[r].branch = "unsupported" =>
                  /\ runs[r].result.error = ConversionNotSupported
                  /\ runs[r].result.read = << >>
            /\ runs[r].pc = "returned" /\ runs[r].branch = "bridge" /\ runs[r].result.success
                  => runs[r].result.read = Ids(runs[r].documents)

C9_Witness ==
    \E r \in RunIds :
        /\ runs[r].branch = "bridge"
        /\ FormatsOf(runs[r].documents) = {"docx"}
        /\ runs[r].pc = "returned"
        /\ runs[r].result.success

StatusMoves ==
    {<<"queued", "processing">>, <<"processing", "completed">>, <<"processing", "failed">>}

\* C2: the status of a job only moves queued -> processing -> completed or
\* failed, and a completed or failed job keeps its status: every step that
\* leaves the same job in place either keeps its status or makes one of
\* these moves.
C2_StatusMoves ==
    [][(currentJob # NoJob /\ currentJob' # NoJob /\ currentJob'.id = currentJob.id
        /\ currentJob'.status # currentJob.status)
          => <<currentJob.status, currentJob'.status>> \in StatusMoves]_vars

\* C3: a startProcessing call made while the current job is queued or
\* processing starts no second run and does not replace the job, and at most
\* one merge run is in flight in every state.
C3_OneMergeAtATime ==
    [][/\ (currentJob # NoJob /\ currentJob.status \in {"queued", "processing"})
            => (~JobCreated /\ DOMAIN runs' \subseteq DOMAIN runs)
       /\ Cardinality(DOMAIN runs') <= 1]_vars

\* The position of document id in a list, 0 if it is not in it.
Position(docs, id) ==
    IF \E i \in 1..Len(docs) : docs[i].id = id
    THEN CHOOSE i \in 1..Len(docs) : docs[i].id = id
    ELSE 0

Loaded(d) == d.file.ok /\ d.file.units > 0

LoadedPages(docs) == SeqSum([i \in 1..Len(docs) |-> IF Loaded(docs[i]) THEN docs[i].file.units ELSE 0])

Succeeded(r) == runs[r].pc = "returned" /\ runs[r].result.success

\* C4: the output of a merge is the concatenation of the documents'
\* contributions in the order of the list at the call of startProcessing:
\* every unit of the output comes from a document of the list, the units of
\* an earlier document precede those of a later one, a PDF that fails to
\* load contributes nothing, and for a list of PDFs the output has as many
\* pages as the inputs that loaded have together.
C4_OutputFollowsListOrder ==
    \A r \in RunIds :
        Succeeded(r) =>
            LET docs == runs[r].documents
                data == runs[r].result.data IN
            /\ \A k \in 1..Len(data) : Position(docs, data[k][1]) # 0
            /\ \A j, k \in 1..Len(data) :
                  j < k => Position(docs, data[j][1]) <= Position(docs, data[k][1])
            /\ \A i \in 1..Len(docs) :
                  (docs[i].format = "pdf" /\ ~docs[i].file.ok)
                      => \A k \in 1..Len(data) : data[k][1] # docs[i].id
            /\ FormatsOf(docs) = {"pdf"} => Len(data) = LoadedPages(docs)

\* C6: the progress of a job stays within 0..100 and never decreases while
\* the job is the current one, and a completed job has progress 100 once its
\* run has returned.
C6_ProgressMonotonic ==
    [][/\ currentJob' # NoJob =>
            /\ RatLeq(Whole(0), currentJob'.progress)
            /\ RatLeq(currentJob'.progress, Whole(100))
       /\ (currentJob # NoJob /\ currentJob' # NoJob /\ currentJob'.id = currentJob.id)
            => RatLeq(currentJob.progress, currentJob'.progress)
       /\ (currentJob' # NoJob /\ currentJob'.status = "completed" /\ DOMAIN runs' = {})
            => currentJob'.progress = Whole(100)]_vars

\* C7: a failed job carries an error of the classifier and no resultUrl.
C7_FailedJobHasNoOutput ==
    (currentJob # NoJob /\ currentJob.status = "failed")
        => (currentJob.error \in ClassifiedCodes /\ currentJob.resultUrl = 0)

\* C8: for a list that holds a pptx document, startProcessing rejects before
\* the job enters processing and before any document is read: no job of such
\* a run is ever processing, and its adapter reads nothing.
C8_UnsupportedRejectedEagerly ==
    \A r \in RunIds :
        "pptx" \in FormatsOf(runs[r].documents) =>
            /\ ~(currentJob # NoJob /\ currentJob.id = r /\ currentJob.status = "processing")
            /\ runs[r].result.read = << >>

\* C10: the PDF merge fails exactly when no input contributed a page, and
\* otherwise succeeds with the pages of the inputs that load.
C10_PdfMergeFailsOnlyWhenEmpty ==
    \A r \in RunIds :
        (runs[r].pc = "returned" /\ runs[r].branch = "native" /\ runs[r].outputFormat = "pdf") =>
            /\ ~runs[r].result.success <=> (\A i \in 1..Len(runs[r].documents) : ~Loaded(runs[r].documents[i]))
            /\ runs[r].result.success => Len(runs[r].result.data) = LoadedPages(runs[r].documents)

\* The parsed rows of input d of the call.
RowsOf(d) == parseCSV(d, call.documents[d])

\* The rows of inputs d..n without their first row, in input order.
RECURSIVE NonHeaderRows(_)
NonHeaderRows(d) ==
    IF d > Len(call.documents) THEN << >>
    ELSE (IF RowsOf(d) = << >> THEN << >> ELSE Tail(RowsOf(d))) \o NonHeaderRows(d + 1)

NonEmptyInputs == {d \in 1..Len(call.documents) : RowsOf(d) # << >>}

Walked == call.op \in ChunkOps /\ call.result \in {"success", "done", "valid"}

ChunkLength(c) == c.end - c.start

\* C12: the chunks a walk visits are contiguous from byte 0, without gap or
\* overlap; a walk that runs to its end visits ceil(size / chunkSize) chunks
\* that end at size, each of length chunkSize but the last, whose length is
\* size mod chunkSize, or chunkSize when that is 0.
C12_ChunksCoverFile ==
    call.op \in ChunkOps =>
        LET v == call.visited
            n == Len(v) IN
        /\ n > 0 => v[1].start = 0
        /\ \A k \in 1..n : v[k].start < v[k].end /\ v[k].end <= call.size
        /\ \A k \in 1..(n - 1) : v[k + 1].start = v[k].end /\ ChunkLength(v[k]) = call.chunkSize
        /\ Walked =>
              /\ n * call.chunkSize >= call.size
              /\ n > 0 => (n - 1) * call.chunkSize < call.size
              /\ n > 0 => v[n].end = call.size
              /\ n > 0 => ChunkLength(v[n]) = IF call.size % call.chunkSize = 0
                                              THEN call.chunkSize
                                              ELSE call.size % call.chunkSize

C12_Witness ==
    /\ Walked
    /\ call.op = "streamFileBuffer"
    /\ Len(call.visited) = 3
    /\ call.size % call.chunkSize # 0

\* C13: at most maxConcurrentChunks chunks are in flight; a batch starts
\* only when every chunk of the batches before it has completed; the counter
\* grows by one with each completed chunk, is reported to onChunkProcessed,
\* and is totalChunks when the call succeeds.
C13_BatchedConcurrency ==
    [][call'.op = "processFileInChunks" =>
         /\ Cardinality(call'.inflight) <= call'.maxConcurrentChunks
         /\ \A b \in 1..(Len(call'.batches) - 1) : call'.batches[b] \subseteq call'.completed
         /\ call'.processedChunks = Cardinality(call'.completed)
         /\ call'.completed # call.completed =>
               /\ call'.processedChunks = call.processedChunks + 1
               /\ call'.reported = Append(call.reported,
                                          <<call.processedChunks + 1, call.totalChunks>>)
         /\ call'.completed = call.completed => call'.reported = call.reported
         /\ call'.result = "success" => call'.processedChunks = call'.totalChunks]_vars

C13_Witness ==
    /\ call.op = "processFileInChunks"
    /\ call.result = "success"
    /\ call.maxConcurrentChunks = 2
    /\ Len(call.batches) = 3
    /\ call.reported[1] = <<1, call.totalChunks>>

\* C14: the validator is invoked on chunks 0, 1, 2, ... in order, with
\* isFirstChunk on chunk 0 only and isLastChunk on the final chunk only; a
\* rejection of chunk k is the last invocation and the result is invalid with
\* chunk number k + 1; the result is valid only after every chunk was
\* accepted.
C14_ValidationStopsAtFirstReject ==
    call.op = "validateFileStructure" =>
        LET v == call.visited
            n == Len(v) IN
        /\ Len(call.outcomes) = n
        /\ \A k \in 1..n :
              /\ v[k].index = k - 1
              /\ v[k].isFirstChunk <=> k = 1
              /\ v[k].isLastChunk <=> v[k].end = call.size
              /\ call.outcomes[k] = "reject" =>
                    /\ k = n
                    /\ call.result = "invalid"
                    /\ call.error = k
              /\ k < n => call.outcomes[k] = "accept"
        /\ call.result = "valid" =>
              /\ \A k \in 1..n : call.outcomes[k] = "accept"
              /\ n > 0 => v[n].end = call.size
              /\ n = 0 => call.size = 0

C14_Witness ==
    /\ call.op = "validateFileStructure"
    /\ Len(call.visited) = 2
    /\ call.outcomes = <<"accept", "reject">>
    /\ call.totalChunks = 3

KnownExtensions == {"pdf", "docx", "doc", "xlsx", "xls", "pptx", "ppt", "txt", "csv"}

NoFormat(file) ==
    /\ \A f \in DocumentFormats : file.type \notin SUPPORTED_FORMATS[f]
    /\ file.extension \notin KnownExtensions

\* C15: a validated file larger than 50MB is invalid with FILE_TOO_LARGE,
\* whatever its format; a file of at most 50MB for which neither the MIME
\* table nor the extension yields a format is invalid with
\* UNSUPPORTED_FORMAT; every other file is valid.
C15_ValidationRejects ==
    (call.op = "validateFiles" /\ call.pc = "done") =>
        LET file == call.file IN
        IF file.size > MAX_FILE_SIZE
        THEN call.invalid = <<file>> /\ call.valid = << >> /\ call.errors = <<"FILE_TOO_LARGE">>
        ELSE IF NoFormat(file)
        THEN call.invalid = <<file>> /\ call.valid = << >>
             /\ call.errors = <<"UNSUPPORTED_FORMAT">>
        ELSE call.valid = <<file>> /\ call.invalid = << >> /\ call.errors = << >>

C15_Witness ==
    /\ call.op = "validateFiles" /\ call.pc = "done"
    /\ call.file.size = MAX_FILE_SIZE
    /\ call.file.type = ""
    /\ call.file.extension = "doc"
    /\ call.valid = <<call.file>>

\* The rules in listed order: a rule matches a message that contains every
\* phrase of one of its alternatives, under its context if it names one.
ClassifierRules ==
    << [any |-> {{"exceeds", "limit"}}, context |-> "any", code |-> "FILE_TOO_LARGE"],
       [any |-> {{"file size", "too large"}}, context |-> "any", code |-> "FILE_TOO_LARGE"],
       [any |-> {{"unsupported", "format"}}, context |-> "any", code |-> "UNSUPPORTED_FORMAT"],
       [any |-> {{"invalid", "format"}}, context |-> "any", code |-> "UNSUPPORTED_FORMAT"],
       [any |-> {{"corrupt"}, {"damaged"}}, context |-> "any", code |-> "FILE_CORRUPTED"],
       [any |-> {{"invalid", "pdf"}, {"invalid", "document"}}, context |-> "any",
        code |-> "FILE_CORRUPTED"],
       [any |-> {{"empty"}, {"no content"}}, context |-> "any", code |-> "FILE_EMPTY"],
       [any |-> {{"memory"}, {"heap"}}, context |-> "any", code |-> "INSUFFICIENT_MEMORY"],
       [any |-> {{"out of memory"}}, context |-> "any", code |-> "MEMORY_EXCEEDED"],
       [any |-> {{"password", "protect"}}, context |-> "any", code |-> "PDF_PASSWORD_PROTECTED"],
       [any |-> {{"pdf", "text extraction"}}, context |-> "any",
        code |-> "PDF_EXTRACTION_FAILED"],
       [any |-> {{"merge", "failed"}}, context |-> "any", code |-> "MERGE_FAILED"],
       [any |-> {{"conversion", "failed"}}, context |-> "any", code |-> "CONVERSION_FAILED"],
       [any |-> {{"timeout"}, {"timed out"}}, context |-> "any", code |-> "TIMEOUT_ERROR"],
       [any |-> {{"failed"}}, context |-> "pdf", code |-> "PDF_EXTRACTION_FAILED"],
       [any |-> {{"failed"}}, context |-> "merge", code |-> "MERGE_FAILED"],
       [any |-> {{"failed"}}, context |-> "processing", code |-> "PROCESSING_FAILED"] >>

RuleMatches(rule, p, context) ==
    /\ \E alternative \in rule.any : alternative \subseteq p
    /\ rule.context \in {"any", context}

FirstMatch(p, context) ==
    LET matching == {k \in 1..Len(ClassifierRules) : RuleMatches(ClassifierRules[k], p, context)}
    IN IF matching = {} THEN "UNKNOWN_ERROR"
       ELSE ClassifierRules[CHOOSE k \in matching : \A m \in matching : k <= m].code

PhraseRuleMatches(p) ==
    \E k \in 1..Len(ClassifierRules) :
        ClassifierRules[k].context = "any" /\ RuleMatches(ClassifierRules[k], p, "undefined")

\* C17: a classification always returns a DocumentError with a code of the
\* table; for a raw error the code is that of the first rule in listed order
\* that matches, UNKNOWN_ERROR when none does, and the same under every
\* context hint when a phrase rule matches; a DocumentError is returned
\* unchanged.
C17_ClassificationFirstMatch ==
    (call.op = "createUserFriendlyError" /\ call.returned) =>
        /\ call.result.isDocumentError
        /\ call.result.code \in ERROR_CODES
        /\ call.error.isDocumentError => call.result = call.error
        /\ ~call.error.isDocumentError =>
              /\ call.result.code = FirstMatch(call.error.phrases, call.context)
              /\ PhraseRuleMatches(call.error.phrases) =>
                    \A context \in Contexts :
                        identifyErrorCode(call.error.phrases, context) = call.result.code

C17_Witness ==
    /\ call.op = "createUserFriendlyError" /\ call.returned
    /\ ~call.error.isDocumentError
    /\ call.error.phrases = {"timeout", "failed"}
    /\ call.context = "processing"
    /\ call.result.code = "TIMEOUT_ERROR"

\* C16: the documents list never holds more than MAX_FILES_BULK documents,
\* and an addDocuments call that raises the limit error leaves the list as
\* it was, whatever addDocuments, removeDocument and clearDocuments calls
\* came before.
C16_DocumentLimit ==
    [][/\ Len(documents') <= MAX_FILES_BULK
       /\ (thrown' = CannotAddMore /\ thrown # CannotAddMore) => documents' = documents
       /\ Len(documents') > Len(documents) =>
             \E n \in 1..MaxBatch :
                 /\ Len(documents') = Len(documents) + n
                 /\ SubSeq(documents', 1, Len(documents)) = documents
                 /\ \A i \in (Len(documents) + 1)..Len(documents') :
                        documents'[i].status = "pending"]_vars

\* A full list rejected a batch after documents had been removed and added
\* again.
C16_Witness ==
    /\ Len(documents) = MAX_FILES_BULK
    /\ thrown = CannotAddMore
    /\ nextDocId > MAX_FILES_BULK + 1
    /\ \E i \in 1..Len(documents) : documents[i].status = "pending"

\* The document of the list with the given id (listed in both lists where
\* used).
Listed(docs, id) == \E i \in 1..Len(docs) : docs[i].id = id
DocOf(docs, id) == docs[CHOOSE i \in 1..Len(docs) : docs[i].id = id]

\* A step of the pipeline of document id failed in this step.
FailsIn(id) ==
    /\ Listed(documents, id) /\ Listed(documents', id)
    /\ DocOf(documents', id).error # DocOf(documents, id).error

StepOrder == {<<"validating", "analyzing">>, <<"analyzing", "previewing">>,
              <<"previewing", "done">>, <<"validating", "done">>, <<"analyzing", "done">>}

\* progress as a rational, undefined counting as 0
ProgressOf(doc) == IF doc.progress = << >> THEN Whole(0) ELSE doc.progress[1]

\* C19: an added document starts pending with its validation running; its
\* pipeline moves validation, analysis, preview in this order, each step
\* after the one before succeeded; a listed document whose pipeline is done
\* is processed or error and one whose pipeline is not is pending; a
\* terminal status never changes; progress stays within [0,1] and never
\* decreases.
C19_PipelineOrder ==
    [][/\ \A id \in DOMAIN pipeline' \ DOMAIN pipeline :
             /\ pipeline'[id].step = "validating"
             /\ Listed(documents', id) /\ DocOf(documents', id).status = "pending"
       /\ \A id \in DOMAIN pipeline :
             /\ pipeline'[id].step # pipeline[id].step
                   => <<pipeline[id].step, pipeline'[id].step>> \in StepOrder
             /\ Listed(documents', id) =>
                   /\ pipeline'[id].step = "done"
                         <=> DocOf(documents', id).status \in {"processed", "error"}
                   /\ pipeline'[id].step # "done"
                         <=> DocOf(documents', id).status = "pending"
                   /\ pipeline'[id].step \in {"validating", "analyzing"}
                         => ~DocOf(documents', id).preview
                   /\ pipeline'[id].step = "validating" => ~DocOf(documents', id).metadata
                   /\ DocOf(documents, id).status \in {"processed", "error"}
                         => DocOf(documents', id).status = DocOf(documents, id).status
                   /\ RatLeq(Whole(0), ProgressOf(DocOf(documents', id)))
                   /\ RatLeq(ProgressOf(DocOf(documents', id)), Whole(1))
                   /\ RatLeq(ProgressOf(DocOf(documents, id)),
                             ProgressOf(DocOf(documents', id)))]_vars

\* A document went through every step, reporting progress on the way.
C19_Witness ==
    \E i \in 1..Len(documents) :
        /\ documents[i].status = "processed"
        /\ documents[i].metadata /\ documents[i].preview
        /\ pipeline[documents[i].id].step = "done"
        /\ \E j \in 1..Len(documents) :
               /\ documents[j].status = "pending"
               /\ pipeline[documents[j].id] = [step |-> "analyzing", reported |-> 1]
               /\ documents[j].progress = <<AnalysisShare(1)>>

\* The job created last; it is the current job unless it was cancelled.
LastJob == nextJobId - 1

\* The result URLs that exist and were not revoked (the URL of run r is r).
LiveUrls == urlsToCleanup \ revoked

\* C20: a cancellation leaves no job and isProcessing false, revokes the
\* result URL of the job, and changes no document and no pipeline; while the
\* job stays cancelled no step recreates a job, and no result URL of the
\* cancelled job is left unrevoked.
C20_CancelDiscardsJob ==
    [][/\ (currentJob # NoJob /\ currentJob' = NoJob) =>
             /\ ~isProcessing'
             /\ currentJob.resultUrl # 0 => currentJob.resultUrl \in revoked'
             /\ documents' = documents
             /\ pipeline' = pipeline
       /\ (currentJob = NoJob /\ nextJobId' = nextJobId) =>
             /\ currentJob' = NoJob
             /\ ~isProcessing'
       /\ (currentJob' = NoJob /\ LastJob' >= 1) => LastJob' \notin LiveUrls']_vars

\* C21: a step that replaces a job holding a result URL by a new job
\* revokes that URL, and at most one result URL is unrevoked at any time.
C21_HandleReleasedOnReplacement ==
    [][/\ (/\ currentJob # NoJob /\ currentJob' # NoJob
           /\ currentJob'.id # currentJob.id
           /\ currentJob.resultUrl # 0) => currentJob.resultUrl \in revoked'
       /\ Cardinality(LiveUrls') <= 1]_vars

\* C22: the sheet names of the merged workbook are pairwise distinct and at
\* most SHEET_NAME_LIMIT characters long, error sheets included, and the
\* search for a free name ends within one try per sheet already present.
C22_SheetNamesDistinct ==
    call.op = "mergeExcelFiles" =>
        /\ \A a, b \in 1..Len(call.SheetNames) :
               call.SheetNames[a] = call.SheetNames[b] => a = b
        /\ \A a \in 1..Len(call.SheetNames) : Len(call.SheetNames[a]) <= SHEET_NAME_LIMIT
        /\ call.nameCounter <= Len(call.SheetNames) + 1

\* The list without the entry at the 0-based index at.
Others(list, at) == SelectSeq([k \in 1..Len(list) |-> <<k, list[k]>>],
                             LAMBDA e : e[1] # at + 1)

EntriesOf(indexed) == [k \in 1..Len(indexed) |-> indexed[k][2]]

\* C23: a reorderDocuments call leaves the length and the set of entries
\* as they were and inserts nothing that is not a document; the list after
\* it is the list before with one document moved to another index and the
\* others in their order.
C23_ReorderPermutes ==
    [][(documents' # documents /\ call' = call) =>
          /\ Len(documents') = Len(documents)
          /\ Range(documents') = Range(documents)
          /\ Undefined \in Range(documents') => Undefined \in Range(documents)
          /\ \E s, d \in 0..(Len(documents) - 1) :
                /\ documents'[d + 1] = documents[s + 1]
                /\ EntriesOf(Others(documents', d)) = EntriesOf(Others(documents, s))]_vars

\* C24: when 'Confirm Order' has run, the store's list is the arrangement
\* of the modal.
C24_ConfirmAppliesOrder ==
    [][(call.op = "orderModal" /\ call'.op = "orderConfirmed") =>
          documents' = call.tempDocuments]_vars

\* C25: a call in which a chunk's processor rejected resolves with
\* success = false, processedChunks the number of chunks completed and
\* totalChunks = ceil(size / chunkSize); it does not throw.
C25_RejectionGivesFailureResult ==
    (call.op = "processFileInChunks" /\ call.failed /\ call.result # "none") =>
        /\ call.result = "failure"
        /\ call.processedChunks = Cardinality(call.completed)
        /\ call.totalChunks = Ceil(call.size, call.chunkSize)

\* C26: a step of a merge run changes the current job only if that job is
\* the one the run created: the late completion or failure of a run whose
\* job was cancelled and replaced leaves the new job as it is.
C26_RunUpdatesOwnJobOnly ==
    [][(active # 0 /\ currentJob # NoJob /\ currentJob.id # active) =>
          currentJob' = currentJob]_vars

\* C27: the result URL of a completed current job has not been revoked.
C27_CompletedJobUrlIsLive ==
    (currentJob # NoJob /\ currentJob.status = "completed" /\ currentJob.resultUrl # 0) =>
        currentJob.resultUrl \notin revoked

C29_ErrorDocumentBlocksMerge ==
    [][(\E i \in 1..Len(documents) : documents[i].status = "error") =>
          /\ nextJobId' = nextJobId
          /\ thrown' # thrown =>
                /\ thrown' = "documents are still being analyzed"
                /\ UNCHANGED <<currentJob, isProcessing, documents>>]_vars

C29_Witness ==
    /\ thrown = "documents are still being analyzed"
    /\ Len(documents) = 2
    /\ documents[1].status = "processed"
    /\ documents[2].status = "error"
    /\ currentJob = NoJob
    /\ nextJobId = 1

\* The pipelines a step moved.
Moved == {id \in DOMAIN pipeline : pipeline'[id] # pipeline[id]}

\* C30: a step of the pipelines (no document is added, removed or cleared)
\* leaves the ids of the list as they were and changes at most one entry;
\* a callback of a document that is no longer listed leaves the list as it
\* is, and a callback of a listed document changes no other entry.
C30_CallbackTouchesOwnEntryOnly ==
    [][(DOMAIN pipeline' = DOMAIN pipeline /\ Len(documents') >= Len(documents)) =>
          /\ Ids(documents') = Ids(documents)
          /\ Cardinality({i \in 1..Len(documents) : documents'[i] # documents[i]}) <= 1
          /\ \A id \in Moved :
                /\ id \notin Range(Ids(documents)) => documents' = documents
                /\ \A i \in 1..Len(documents) :
                      documents[i].id # id => documents'[i] = documents[i]]_vars

\* A removed document's pipeline has run on to its end beside a listed
\* document that is still pending.
C30_Witness ==
    /\ Len(documents) = 1
    /\ documents[1].id = 2
    /\ documents[1].status = "pending"
    /\ documents[1].progress = << >>
    /\ Awaits(1, "done")
    /\ Awaits(2, "validating")

=============================================================================
